---- MODULE Spec2Model ----
(***************************************************************************)
(* Model of the `fix fk` / `fix null` commands of the migrator and of the  *)
(* remediation engine they call (internal/database: FixForeignKeyViolations*)
(* and FixNullValueViolations), run against a live relational database.    *)
(*                                                                         *)
(* One behaviour is one invocation of a fix command: flag parsing, the     *)
(* dry-run/confirm gate, connection, schema load, one engine loop          *)
(* iteration per foreign key / NOT NULL column, display and Close.         *)
(* The engine is modelled on a PostgreSQL connection.                      *)
(***************************************************************************)
EXTENDS Integers, Sequences, FiniteSets, TLC

\* ---------------------------------------------------------------- bounds
MaxRows == 3      \* rows per live table
MaxFKs  == 2      \* foreign keys per target schema
MaxFaults == 1    \* failures the connection injects during one run
MaxTables == 2    \* tables per compared schema
MaxColumns == 2   \* columns per compared table

\* LIMIT of the violation queries. The source value is 1000; the model
\* scales it to 2 so that a live table of three rows can exceed it.
QueryLimit == 2

NULL == 0

TableNames == {"a", "b"}

Commands == {"fk", "null"}

Min(x, y) == IF x <= y THEN x ELSE y

SeqsUpTo(S, n) == UNION { [1..m -> S] : m \in 0..n }

\* ------------------------------------------------------------ live database
\* A live table: present or not, its columns, its rows. Rows are a bag,
\* kept as a sequence (no primary key is enforced by the program).
NoTable == [exists |-> FALSE, cols |-> {}, rows |-> <<>>]

PlainTable(rs) == [exists |-> TRUE, cols |-> {"id", "ref"}, rows |-> rs]

\* Rows looked at by `fix fk`: ref is NULL, matches id 1, or matches nothing.
\* Rows looked at by `fix null`: either column may be NULL.
RowKinds(cmd) ==
    IF cmd = "fk" THEN [id : {1}, ref : {NULL, 1, 2}]
    ELSE [id : {NULL, 1}, ref : {NULL, 1}]

RowKey(r) == r.id * 3 + r.ref

\* one representative per bag: rows listed in non-decreasing key order
RowBags(cmd) ==
    { s \in SeqsUpTo(RowKinds(cmd), MaxRows) :
        \A i \in 1..Len(s) : \A j \in 1..Len(s) :
            i < j => RowKey(s[i]) <= RowKey(s[j]) }

LiveTables(cmd) ==
    {NoTable}
    \cup { PlainTable(rs) : rs \in RowBags(cmd) }
    \cup { [exists |-> TRUE, cols |-> cs, rows |-> <<>>] : cs \in {{"id"}, {"ref"}} }

\* Live databases the engine is run against. `fix null` looks at each table
\* on its own, so table "b" only varies in being there.
Databases(cmd) ==
    IF cmd = "fk" THEN [TableNames -> LiveTables(cmd)]
    ELSE { [t \in TableNames |-> IF t = "a" THEN ta ELSE tb] :
             ta \in LiveTables(cmd),
             tb \in {NoTable, PlainTable(<<>>), PlainTable(<<[id |-> 1, ref |-> NULL]>>)} }

\* Live databases of the whole-command runs: table "b" is there and empty.
CliDatabases(cmd) == { d \in Databases(cmd) : d["b"] = PlainTable(<<>>) }

\* ------------------------------------------------------------ target schema
ForeignKey(tn, rt) ==
    [ConstraintName |-> "fk", TableName |-> tn, ColumnName |-> "ref",
     ReferencedTable |-> rt, ReferencedColumn |-> "id"]

Column(name, nullable) == [ColumnName |-> name, IsNullable |-> nullable]

Table(name, idNullable, refNullable, fks) ==
    [TableName |-> name,
     Columns |-> <<Column("id", idNullable), Column("ref", refNullable)>>,
     ForeignKeys |-> fks]

\* Foreign keys as authored in the schema file: those of table "a" leave
\* TableName empty, those of table "b" spell it out.
FKPool(owner) ==
    { ForeignKey(IF owner = "a" THEN "" ELSE owner, rt) : rt \in TableNames }

\* Schema files read by `fix fk`: two tables with at most MaxFKs foreign
\* keys in all.
FKSchemas ==
    { s \in { <<Table("a", "YES", "YES", fa), Table("b", "YES", "YES", fb)>> :
                fa \in SeqsUpTo(FKPool("a"), MaxFKs),
                fb \in SeqsUpTo(FKPool("b"), MaxFKs) } :
        Len(s[1].ForeignKeys) + Len(s[2].ForeignKeys) <= MaxFKs }

\* Schema files read by `fix null`: two tables, columns NOT NULL or not.
NullSchemas ==
    { <<Table("a", ia, ra, <<>>), Table("b", "YES", rb, <<>>)>> :
        ia \in {"YES", "NO"}, ra \in {"YES", "NO"}, rb \in {"YES", "NO"} }

TargetSchemas(cmd) == IF cmd = "fk" THEN FKSchemas ELSE NullSchemas

\* ------------------------------------------------------- catalog probes
\* tableExists: one-row probe of information_schema.tables
tableExists(d, t) == t \in DOMAIN d /\ d[t].exists

\* columnExists: one-row probe of information_schema.columns
columnExists(d, t, c) == tableExists(d, t) /\ c \in d[t].cols

\* getTableColumns scans eight destinations from the four columns the
\* dialect's columns query selects, so it fails on every table that has a
\* column; a table without columns gives an empty list.
getTableColumns(d, t) ==
    IF tableExists(d, t) /\ d[t].cols # {}
    THEN [err |-> TRUE, columns |-> <<>>]
    ELSE [err |-> FALSE, columns |-> <<>>]

\* getIdentifierColumn: id, <table>_id, uuid, guid, key, else the first
\* column, else the literal "1"
getIdentifierColumn(d, t) ==
    IF columnExists(d, t, "id") THEN "id"
    ELSE IF columnExists(d, t, t \o "_id") THEN t \o "_id"
    ELSE IF columnExists(d, t, "uuid") THEN "uuid"
    ELSE IF columnExists(d, t, "guid") THEN "guid"
    ELSE IF columnExists(d, t, "key") THEN "key"
    ELSE LET cs == getTableColumns(d, t)
         IN  IF ~cs.err /\ Len(cs.columns) > 0 THEN cs.columns[1].ColumnName
             ELSE "1"

\* ------------------------------------------------------------ anti-join
\* Indices of the rows of fk.TableName whose fk column is non-null and has
\* no row of fk.ReferencedTable with an equal referenced column.
Orphans(d, fk) ==
    { i \in 1..Len(d[fk.TableName].rows) :
        LET v == d[fk.TableName].rows[i][fk.ColumnName]
        IN  /\ v # NULL
            /\ ~ \E j \in 1..Len(d[fk.ReferencedTable].rows) :
                   d[fk.ReferencedTable].rows[j][fk.ReferencedColumn] = v }

\* the statement names only objects the live database has
FKObjectsExist(d, fk) ==
    /\ columnExists(d, fk.TableName, fk.ColumnName)
    /\ columnExists(d, fk.ReferencedTable, fk.ReferencedColumn)

\* findForeignKeyViolations that probes the columns before the tables.
findForeignKeyViolations_ColumnsFirst(d, fk, fault) ==
    IF fault = "probe"
    THEN [err |-> TRUE, type |-> "", n |-> 0, queried |-> FALSE]
    ELSE IF ~columnExists(d, fk.TableName, fk.ColumnName)
    THEN [err |-> FALSE, type |-> "missing_source_column", n |-> 1, queried |-> FALSE]
    ELSE IF ~columnExists(d, fk.ReferencedTable, fk.ReferencedColumn)
    THEN [err |-> FALSE, type |-> "missing_referenced_column", n |-> 1, queried |-> FALSE]
    ELSE IF fault = "query"
            \/ ~columnExists(d, fk.TableName, getIdentifierColumn(d, fk.TableName))
    THEN [err |-> TRUE, type |-> "", n |-> 0, queried |-> TRUE]
    ELSE [err |-> FALSE, type |-> "foreign_key_violation",
          n |-> Min(Cardinality(Orphans(d, fk)), QueryLimit), queried |-> TRUE]

\* Outcome of one call of findForeignKeyViolations. fault is the failure
\* the connection injects into this call: "probe" fails the first existence
\* probe, "query" fails the anti-join query.
findForeignKeyViolations(d, fk, fault) ==
    IF fault = "probe"
    THEN [err |-> TRUE, type |-> "", n |-> 0, queried |-> FALSE]
    ELSE IF ~tableExists(d, fk.TableName)
    THEN [err |-> FALSE, type |-> "missing_source_table", n |-> 1, queried |-> FALSE]
    ELSE IF ~tableExists(d, fk.ReferencedTable)
    THEN [err |-> FALSE, type |-> "missing_referenced_table", n |-> 1, queried |-> FALSE]
    ELSE IF ~columnExists(d, fk.TableName, fk.ColumnName)
    THEN [err |-> FALSE, type |-> "missing_source_column", n |-> 1, queried |-> FALSE]
    ELSE IF ~columnExists(d, fk.ReferencedTable, fk.ReferencedColumn)
    THEN [err |-> FALSE, type |-> "missing_referenced_column", n |-> 1, queried |-> FALSE]
    ELSE IF fault = "query"
            \/ ~columnExists(d, fk.TableName, getIdentifierColumn(d, fk.TableName))
    THEN [err |-> TRUE, type |-> "", n |-> 0, queried |-> TRUE]
    ELSE [err |-> FALSE, type |-> "foreign_key_violation",
          n |-> Min(Cardinality(Orphans(d, fk)), QueryLimit), queried |-> TRUE]

\* rows of a sequence whose index is not in the set
DropRows(rows, idx) ==
    LET keep == { i \in 1..Len(rows) : i \notin idx }
        Nth[m \in 0..Len(rows)] ==
            IF m = 0 THEN <<>>
            ELSE IF m \in keep THEN Append(Nth[m - 1], rows[m]) ELSE Nth[m - 1]
    IN  Nth[Len(rows)]

\* removeForeignKeyViolatingRecords: one DELETE scoped by the anti-join
removeForeignKeyViolatingRecords(d, fk, fault) ==
    IF fault = "exec" \/ ~FKObjectsExist(d, fk)
    THEN [err |-> TRUE, n |-> 0, db |-> d]
    ELSE LET o == Orphans(d, fk)
         IN  [err |-> FALSE, n |-> Cardinality(o),
              db |-> [d EXCEPT ![fk.TableName].rows = DropRows(@, o)]]

\* setForeignKeyColumnsToNull: one UPDATE scoped by the anti-join
setForeignKeyColumnsToNull(d, fk, fault) ==
    IF fault = "exec" \/ ~FKObjectsExist(d, fk)
    THEN [err |-> TRUE, n |-> 0, db |-> d]
    ELSE LET o == Orphans(d, fk)
         IN  [err |-> FALSE, n |-> Cardinality(o),
              db |-> [d EXCEPT ![fk.TableName].rows =
                        [i \in 1..Len(@) |->
                           IF i \in o THEN [@[i] EXCEPT ![fk.ColumnName] = NULL]
                           ELSE @[i]]]]

\* ------------------------------------------------------------ NULL values
NullRows(d, t, c) ==
    { i \in 1..Len(d[t].rows) : d[t].rows[i][c] = NULL }

\* findNullViolations: SELECT <identifier> FROM t WHERE c IS NULL LIMIT n
findNullViolations(d, t, c, fault) ==
    IF fault = "query" \/ ~columnExists(d, t, c)
       \/ ~columnExists(d, t, getIdentifierColumn(d, t))
    THEN [err |-> TRUE, n |-> 0]
    ELSE [err |-> FALSE, n |-> Min(Cardinality(NullRows(d, t, c)), QueryLimit)]

\* removeNullValueRecords: DELETE FROM t WHERE c IS NULL
removeNullValueRecords(d, t, c, fault) ==
    IF fault = "exec" \/ ~columnExists(d, t, c)
    THEN [err |-> TRUE, n |-> 0, db |-> d]
    ELSE LET o == NullRows(d, t, c)
         IN  [err |-> FALSE, n |-> Cardinality(o),
              db |-> [d EXCEPT ![t].rows = DropRows(@, o)]]

\* the value a --default-value literal is stored as
Literal(s) == IF s = "1" THEN 1 ELSE NULL

\* setNullValuesToDefault: UPDATE t SET c = $1 WHERE c IS NULL
setNullValuesToDefault(d, t, c, dv, fault) ==
    IF fault = "exec" \/ ~columnExists(d, t, c)
    THEN [err |-> TRUE, n |-> 0, db |-> d]
    ELSE LET o == NullRows(d, t, c)
         IN  [err |-> FALSE, n |-> Cardinality(o),
              db |-> [d EXCEPT ![t].rows =
                        [i \in 1..Len(@) |->
                           IF i \in o THEN [@[i] EXCEPT ![c] = Literal(dv)]
                           ELSE @[i]]]]

\* ------------------------------------------------------------ fix results
FixResult ==
    [IssuesFound |-> 0, RecordsAffected |-> 0, Success |-> FALSE,
     Error |-> "", Details |-> ""]

\* results[tableName] = result
Put(res, t, r) == [x \in DOMAIN res \cup {t} |-> IF x = t THEN r ELSE res[x]]

\* The foreign keys of the schema in loop order, TableName filled in from
\* the owning table when the file left it empty.
RECURSIVE ForeignKeysOf(_)
ForeignKeysOf(schema) ==
    IF schema = <<>> THEN <<>>
    ELSE LET t == Head(schema)
         IN  [i \in 1..Len(t.ForeignKeys) |->
                IF t.ForeignKeys[i].TableName = ""
                THEN [t.ForeignKeys[i] EXCEPT !.TableName = t.TableName]
                ELSE t.ForeignKeys[i]]
             \o ForeignKeysOf(Tail(schema))

\* ValidateForeignKeys: the issues of every foreign key in schema order, kept
\* as (type, count) per foreign key; a failed find becomes one
\* foreign_key_validation_error issue.
ValidateForeignKeys(d, schema) ==
    LET fks == ForeignKeysOf(schema)
    IN  [i \in 1..Len(fks) |->
           LET f == findForeignKeyViolations(d, fks[i], "none")
           IN  IF f.err THEN [type |-> "foreign_key_validation_error", n |-> 1]
               ELSE [type |-> f.type, n |-> f.n]]

IsNotNull(c) == c.IsNullable = "NO"

\* The (table, column) pairs FixNullValueViolations visits, in loop order.
RECURSIVE NotNullColumnsOf(_)
NotNullColumnsOf(schema) ==
    IF schema = <<>> THEN <<>>
    ELSE LET t == Head(schema)
             Cols[m \in 0..Len(t.Columns)] ==
                 IF m = 0 THEN <<>>
                 ELSE IF IsNotNull(t.Columns[m])
                      THEN Append(Cols[m - 1],
                                  [TableName |-> t.TableName,
                                   ColumnName |-> t.Columns[m].ColumnName])
                      ELSE Cols[m - 1]
         IN  Cols[Len(t.Columns)] \o NotNullColumnsOf(Tail(schema))

\* ------------------------------------------------------------ engine loops
\* Failures the connection can inject into one loop iteration.
Faults == {"none", "probe", "query", "exec"}

\* ExecutesFix that ignores the dry-run flag.
ExecutesFix_Always(dry) == TRUE

\* `if !dryRun`: the corrective statement is issued only outside dry-run.
ExecutesFix(dry) == ~dry

\* HaltsOnError that returns at the first failure.
HaltsOnError_Returns(findErr, fixErr) == findErr \/ fixErr

\* Both loops `continue` after a failed find and carry on after a failed
\* corrective statement; neither returns early.
HaltsOnError(findErr, fixErr) == FALSE

\* WouldAffect that counts nothing.
WouldAffect_None(violationCount) == 0

\* "In dry-run mode, count what would be affected": the dry run adds the
\* number of violations found to RecordsAffected.
WouldAffect(violationCount) == violationCount

\* One iteration of the loop of FixForeignKeyViolations, for foreign key fk
\* (TableName already filled in). ev is what the iteration did.
FixForeignKeyBody(d, res, fk, action, dry, cfg, fault) ==
    LET tableName == fk.TableName
        res0 == IF tableName \in DOMAIN res THEN res
                ELSE Put(res, tableName, FixResult)
        f == findForeignKeyViolations(d, fk, fault)
        ev0 == [table |-> tableName, findErr |-> f.err, type |-> f.type,
                found |-> f.n, stmt |-> FALSE, fixErr |-> FALSE, affected |-> 0]
    IN  IF f.err
        THEN IF cfg.IgnoreMissingTables
             THEN [db |-> d, results |-> res0, ev |-> ev0]
             ELSE [db |-> d,
                   results |-> Put(res0, tableName,
                                   [res0[tableName] EXCEPT !.Error = "find failed"]),
                   ev |-> ev0]
        ELSE IF f.n = 0
        THEN [db |-> d, results |-> res0, ev |-> ev0]
        ELSE LET r1 == [res0[tableName] EXCEPT !.IssuesFound = @ + f.n]
             IN  IF ExecutesFix(dry)
                 THEN LET x == CASE action = "remove" ->
                                      removeForeignKeyViolatingRecords(d, fk, fault)
                                 [] action = "set-null" ->
                                      setForeignKeyColumnsToNull(d, fk, fault)
                                 [] OTHER -> [err |-> TRUE, n |-> 0, db |-> d]
                          r2 == IF x.err
                                THEN [r1 EXCEPT !.Error = "fix failed",
                                                !.Success = FALSE]
                                ELSE [r1 EXCEPT !.RecordsAffected = @ + x.n,
                                                !.Success = TRUE]
                      IN  [db |-> x.db, results |-> Put(res0, tableName, r2),
                           ev |-> [ev0 EXCEPT !.stmt = (action \in {"remove", "set-null"}),
                                              !.fixErr = x.err, !.affected = x.n]]
                 ELSE [db |-> d,
                       results |-> Put(res0, tableName,
                                       [r1 EXCEPT !.RecordsAffected = @ + WouldAffect(f.n),
                                                  !.Success = TRUE,
                                                  !.Details = "Would"]),
                       ev |-> [ev0 EXCEPT !.affected = WouldAffect(f.n)]]

\* One iteration of the column loop of FixNullValueViolations, for a NOT
\* NULL column c (TableName, ColumnName) of the target schema.
FixNullValueBody(d, res, c, action, dv, dry, cfg, fault) ==
    LET tableName == c.TableName
        skipTable == cfg.IgnoreMissingTables
                     /\ (fault = "probe" \/ ~tableExists(d, tableName))
        skipColumn == cfg.IgnoreMissingColumns
                      /\ (fault = "probe" \/ ~columnExists(d, tableName, c.ColumnName))
        f == findNullViolations(d, tableName, c.ColumnName, fault)
        ev0 == [table |-> tableName, findErr |-> f.err, type |-> "null_constraint_violation",
                found |-> f.n, stmt |-> FALSE, fixErr |-> FALSE, affected |-> 0]
    IN  IF skipTable \/ skipColumn
        THEN [db |-> d, results |-> res,
              ev |-> [ev0 EXCEPT !.type = "skipped", !.findErr = FALSE, !.found = 0]]
        ELSE IF f.err
        THEN [db |-> d,
              results |-> Put(res, tableName,
                              [res[tableName] EXCEPT !.Error = "find failed"]),
              ev |-> ev0]
        ELSE IF f.n = 0
        THEN [db |-> d, results |-> res, ev |-> ev0]
        ELSE LET r1 == [res[tableName] EXCEPT !.IssuesFound = @ + f.n]
             IN  IF ExecutesFix(dry)
                 THEN LET x == CASE action = "remove" ->
                                      removeNullValueRecords(d, tableName, c.ColumnName, fault)
                                 [] action = "set-default" ->
                                      setNullValuesToDefault(d, tableName, c.ColumnName, dv, fault)
                                 [] OTHER -> [err |-> TRUE, n |-> 0, db |-> d]
                          r2 == IF x.err
                                THEN [r1 EXCEPT !.Error = "fix failed",
                                                !.Success = FALSE]
                                ELSE [r1 EXCEPT !.RecordsAffected = @ + x.n,
                                                !.Success = TRUE]
                      IN  [db |-> x.db, results |-> Put(res, tableName, r2),
                           ev |-> [ev0 EXCEPT !.stmt = (action \in {"remove", "set-default"}),
                                              !.fixErr = x.err, !.affected = x.n]]
                 ELSE [db |-> d,
                       results |-> Put(res, tableName,
                                       [r1 EXCEPT !.RecordsAffected = @ + WouldAffect(f.n),
                                                  !.Success = TRUE,
                                                  !.Details = "Would"]),
                       ev |-> [ev0 EXCEPT !.affected = WouldAffect(f.n)]]

\* FixForeignKeyViolations on a connection that injects no failure: the loop
\* over fks from database d and results res, giving the final database and
\* the returned results.
RECURSIVE FixForeignKeyViolations(_, _, _, _, _, _)
FixForeignKeyViolations(d, res, fks, action, dry, cfg) ==
    IF fks = <<>> THEN [db |-> d, results |-> res]
    ELSE LET out == FixForeignKeyBody(d, res, Head(fks), action, dry, cfg, "none")
         IN  FixForeignKeyViolations(out.db, out.results, Tail(fks), action, dry, cfg)

\* ------------------------------------------------------------ schema differ
\* every ordering of a finite set: the orders a Go map range can produce
Perms(S) ==
    { p \in [1..Cardinality(S) -> S] :
        \A i \in 1..Cardinality(S) : \A j \in 1..Cardinality(S) :
            i # j => p[i] # p[j] }

\* a DefaultValue (interface{}): nil, a JSON string or a JSON number
NilValue == [kind |-> "nil"]

StringValue(v) == [kind |-> "string", str |-> v]

NumberValue(v) == [kind |-> "number", num |-> v]

\* fmt.Sprintf("%v", value)
Sprintv(x) ==
    CASE x.kind = "nil" -> "<nil>"
      [] x.kind = "string" -> x.str
      [] x.kind = "number" -> ToString(x.num)

FullColumn(name, type, nullable, default, size) ==
    [ColumnName |-> name, DataType |-> type, DefaultValue |-> default,
     IsNullable |-> nullable, CharacterMaxLength |-> size]

FullForeignKey(cn, tn, col, rt, rc, del) ==
    [ConstraintName |-> cn, TableName |-> tn, ColumnName |-> col,
     ReferencedTable |-> rt, ReferencedColumn |-> rc,
     UpdateRule |-> "", DeleteRule |-> del]

\* map[name] = &list[i] in list order, keys[i] being the name of list[i]:
\* the last entry of a name wins
LastIndex(keys, key) ==
    CHOOSE i \in 1..Len(keys) :
        /\ keys[i] = key
        /\ \A j \in 1..Len(keys) : keys[j] = key => j <= i

MapOf(list, keys) ==
    [key \in { keys[i] : i \in 1..Len(keys) } |-> list[LastIndex(keys, key)]]

TableKey(t) == t.TableName

TableKeys(list) == [i \in 1..Len(list) |-> TableKey(list[i])]

ColumnKey(c) == c.ColumnName

ColumnKeys(list) == [i \in 1..Len(list) |-> ColumnKey(list[i])]

\* FKKey that also carries the constraint name and the rules.
FKKey_WithName(fk) ==
    fk.ConstraintName \o ":" \o fk.TableName \o "." \o fk.ColumnName \o "->"
    \o fk.ReferencedTable \o "." \o fk.ReferencedColumn
    \o ":" \o fk.UpdateRule \o ":" \o fk.DeleteRule

\* FKKey that leaves the table name out, so that within one table an empty
\* TableName and the owner's name give the same key.
FKKey_OwnerImplied(fk) ==
    fk.ColumnName \o "->" \o fk.ReferencedTable \o "." \o fk.ReferencedColumn

\* fmt.Sprintf("%s.%s->%s.%s", ...)
FKKey(fk) ==
    fk.TableName \o "." \o fk.ColumnName \o "->"
    \o fk.ReferencedTable \o "." \o fk.ReferencedColumn

FKKeys(list) == [i \in 1..Len(list) |-> FKKey(list[i])]

\* the values of map m at the keys of order p
ValuesAt(m, p) == [i \in 1..Len(p) |-> m[p[i]]]

\* areColumnsEqual that also compares the size metadata.
areColumnsEqual_WithSize(current, target) ==
    /\ current.DataType = target.DataType
    /\ current.IsNullable = target.IsNullable
    /\ Sprintv(current.DefaultValue) = Sprintv(target.DefaultValue)
    /\ current.CharacterMaxLength = target.CharacterMaxLength

\* areColumnsEqual that finds no two columns equal.
areColumnsEqual_Never(current, target) == FALSE

areColumnsEqual(current, target) ==
    /\ current.DataType = target.DataType
    /\ current.IsNullable = target.IsNullable
    /\ Sprintv(current.DefaultValue) = Sprintv(target.DefaultValue)

\* The results compareForeignKeys can return, one per map iteration order.
compareForeignKeys(currentFKs, targetFKs) ==
    LET currentFKMap == MapOf(currentFKs, FKKeys(currentFKs))
        targetFKMap == MapOf(targetFKs, FKKeys(targetFKs))
    IN  { [Missing |-> ValuesAt(targetFKMap, p), Extra |-> ValuesAt(currentFKMap, q)] :
            p \in Perms(DOMAIN targetFKMap \ DOMAIN currentFKMap),
            q \in Perms(DOMAIN currentFKMap \ DOMAIN targetFKMap) }

\* The results compareTableStructures can return.
compareTableStructures(currentTable, targetTable) ==
    LET currentColumns == MapOf(currentTable.Columns, ColumnKeys(currentTable.Columns))
        targetColumns == MapOf(targetTable.Columns, ColumnKeys(targetTable.Columns))
        modified == { n \in DOMAIN targetColumns \cap DOMAIN currentColumns :
                        ~areColumnsEqual(currentColumns[n], targetColumns[n]) }
    IN  { [MissingColumns |-> ValuesAt(targetColumns, p),
           ExtraColumns |-> ValuesAt(currentColumns, q),
           ModifiedColumns |-> [n \in modified |->
                                  [Current |-> currentColumns[n],
                                   Target |-> targetColumns[n]]],
           ForeignKeyDiffs |-> f] :
            p \in Perms(DOMAIN targetColumns \ DOMAIN currentColumns),
            q \in Perms(DOMAIN currentColumns \ DOMAIN targetColumns),
            f \in compareForeignKeys(currentTable.ForeignKeys, targetTable.ForeignKeys) }

\* isTableDifferenceEmpty that never finds a difference empty.
isTableDifferenceEmpty_Never(diff) == FALSE

isTableDifferenceEmpty(diff) ==
    /\ Len(diff.MissingColumns) = 0
    /\ Len(diff.ExtraColumns) = 0
    /\ Cardinality(DOMAIN diff.ModifiedColumns) = 0
    /\ Len(diff.ForeignKeyDiffs.Missing) = 0
    /\ Len(diff.ForeignKeyDiffs.Extra) = 0

\* CompareSchemas that lists every target table as missing.
CompareSchemas_AllMissing(current, target) ==
    LET currentTables == MapOf(current, TableKeys(current))
        targetTables == MapOf(target, TableKeys(target))
    IN  { [MissingTables |-> m, ExtraTables |-> e, TableDifferences |-> <<>>] :
            m \in Perms(DOMAIN targetTables),
            e \in Perms(DOMAIN currentTables \ DOMAIN targetTables) }

\* The results CompareSchemas can return.
CompareSchemas(current, target) ==
    LET currentTables == MapOf(current, TableKeys(current))
        targetTables == MapOf(target, TableKeys(target))
        both == DOMAIN targetTables \cap DOMAIN currentTables
        Diffs(n) == { d \in compareTableStructures(currentTables[n], targetTables[n]) :
                        ~isTableDifferenceEmpty(d) }
        kept == { n \in both : Diffs(n) # {} }
    IN  { [MissingTables |-> m, ExtraTables |-> e, TableDifferences |-> td] :
            m \in Perms(DOMAIN targetTables \ DOMAIN currentTables),
            e \in Perms(DOMAIN currentTables \ DOMAIN targetTables),
            td \in { f \in [kept -> UNION { Diffs(n) : n \in kept }] :
                        \A n \in kept : f[n] \in Diffs(n) } }

\* ------------------------------------------------------------ command line
\* how a boolean flag was given: not at all, --flag / --flag=true, --flag=false
FlagStates == {"absent", "true", "false"}

Actions == {"", "remove", "set-null", "set-default", "drop"}

DefaultValues == {"", "1"}

\* IgnoreMissingColumns is read by FixNullValueViolations only.
ValidationConfigs(cmd) ==
    [IgnoreMissingTables : BOOLEAN,
     IgnoreMissingColumns : IF cmd = "null" THEN BOOLEAN ELSE {FALSE}]

\* cmd.Flags().Changed(name)
Changed(flag) == flag # "absent"

\* ActionError without the --default-value check.
ActionError_NoDefaultCheck(cmd, action, dv) ==
    IF cmd = "fk"
    THEN action = "" \/ (action # "remove" /\ action # "set-null")
    ELSE action = "" \/ (action # "remove" /\ action # "set-default")

\* The configuration checks at the top of RunE: TRUE when the command
\* returns an error for its --action / --default-value.
ActionError(cmd, action, dv) ==
    IF cmd = "fk"
    THEN action = "" \/ (action # "remove" /\ action # "set-null")
    ELSE \/ action = ""
         \/ (action # "remove" /\ action # "set-default")
         \/ (action = "set-default" /\ dv = "")

\* ResolveDryRun without the "neither flag given" default.
ResolveDryRun_NoDefault(dryFlag, confFlag, dry, confirm) ==
    IF confirm /\ ~Changed(dryFlag) THEN FALSE ELSE dry

\* ResolveDryRun where --confirm switches dry-run off even when --dry-run
\* was given.
ResolveDryRun_ConfirmWins(dryFlag, confFlag, dry, confirm) ==
    LET d1 == IF ~Changed(dryFlag) /\ ~Changed(confFlag) THEN TRUE ELSE dry
    IN  IF confirm THEN FALSE ELSE d1

\* The value of dryRun after the two defaulting steps of RunE.
ResolveDryRun(dryFlag, confFlag, dry, confirm) ==
    LET d1 == IF ~Changed(dryFlag) /\ ~Changed(confFlag) THEN TRUE ELSE dry
    IN  IF confirm /\ ~Changed(dryFlag) THEN FALSE ELSE d1

\* GateRejects without the confirm check.
GateRejects_Never(dry, confirm) == FALSE

\* "must use --confirm flag when not in dry-run mode"
GateRejects(dry, confirm) == ~dry /\ ~confirm

NoCall == [fn |-> "none", action |-> "", dryRun |-> TRUE]

VARIABLES
    command,          \* "fk" or "null": the subcommand of `fix`
    dryRunFlag,       \* how --dry-run was given
    confirmFlag,      \* how --confirm was given
    fixAction,        \* --action
    defaultValue,     \* --default-value
    dryRun,           \* package variable dryRun
    confirmChanges,   \* package variable confirmChanges
    pc,               \* position in RunE
    conn,             \* the connection handle: "none", "open", "closed"
    db,               \* the live database
    targetSchema,     \* the loaded schema file
    validationConfig, \* getValidationConfigFromFlags()
    call,             \* the engine call RunE made (NoCall before it)
    dbAtCall,         \* the live database when the engine was called
    k,                \* loop position of the engine
    results,          \* models.FixResults being accumulated
    log,              \* what each finished loop iteration did
    faults,           \* failures injected by the connection so far
    currentSchema,    \* the schema read from the live database (schema compare)
    comparison,       \* the SchemaComparison returned by CompareSchemas
    issues            \* the ValidationIssues a validation pass has appended

vars == <<command, dryRunFlag, confirmFlag, fixAction, defaultValue, dryRun,
          confirmChanges, pc, conn, db, targetSchema, validationConfig, call,
          dbAtCall, k, results, log, faults, currentSchema, comparison, issues>>

auxVars == <<currentSchema, comparison, issues>>

NoComparison ==
    [MissingTables |-> <<>>, ExtraTables |-> <<>>, TableDifferences |-> <<>>]

flagVars == <<command, dryRunFlag, confirmFlag, fixAction, defaultValue,
              confirmChanges>>

EmptyResults == [t \in {} |-> FixResult]

Init ==
    /\ command \in Commands
    /\ dryRunFlag \in FlagStates
    /\ confirmFlag \in FlagStates
    /\ fixAction \in Actions
    /\ defaultValue \in (IF command = "null" THEN DefaultValues ELSE {""})
    /\ dryRun = (dryRunFlag = "true")
    /\ confirmChanges = (confirmFlag = "true")
    /\ pc = "start"
    /\ conn = "none"
    /\ db \in CliDatabases(command)
    /\ targetSchema = <<>>
    /\ validationConfig = [IgnoreMissingTables |-> FALSE, IgnoreMissingColumns |-> FALSE]
    /\ call = NoCall
    /\ dbAtCall = db
    /\ k = 1
    /\ results = EmptyResults
    /\ log = <<>>
    /\ faults = 0
    /\ currentSchema = <<>>
    /\ comparison = NoComparison
    /\ issues = <<>>

\* a Close that leaves the handle open
Close_Leaks(c) == c

\* DB.Close / conn.Close(): releases an open handle
Close(c) == IF c = "open" THEN "closed" ELSE c

\* RunE up to the gate: action checks, dry-run defaulting, confirm check.
RunEGate ==
    /\ pc = "start"
    /\ IF ActionError(command, fixAction, defaultValue)
       THEN pc' = "action_error" /\ UNCHANGED dryRun
       ELSE /\ dryRun' = ResolveDryRun(dryRunFlag, confirmFlag, dryRun, confirmChanges)
            /\ pc' = IF GateRejects(dryRun', confirmChanges)
                     THEN "confirm_error" ELSE "gated"
    /\ UNCHANGED <<flagVars, conn, db, targetSchema, validationConfig, call,
                   dbAtCall, k, results, log, faults>>
    /\ UNCHANGED auxVars

\* Configuration load and database.NewConnection. A failed ping closes the
\* handle inside NewConnection.
Connect ==
    /\ pc = "gated"
    /\ \E outcome \in {"config", "open", "ping", "ok"} :
         /\ conn' = CASE outcome = "ok" -> "open"
                      [] outcome = "ping" -> Close("open")
                      [] OTHER -> "none"
         /\ pc' = IF outcome = "ok" THEN "connected" ELSE "connect_error"
    /\ UNCHANGED <<flagVars, dryRun, db, targetSchema, validationConfig, call,
                   dbAtCall, k, results, log, faults>>
    /\ UNCHANGED auxVars

\* schema.LoadSchema fails: RunE returns, the deferred Close runs.
LoadSchemaFails ==
    /\ pc = "connected"
    /\ pc' = "schema_error"
    /\ conn' = Close(conn)
    /\ UNCHANGED <<flagVars, dryRun, db, targetSchema, validationConfig, call,
                   dbAtCall, k, results, log, faults>>
    /\ UNCHANGED auxVars

\* Schema loaded, validation config read, the engine is called.
InvokeFix ==
    /\ pc = "connected"
    /\ \E s \in TargetSchemas(command), cfg \in ValidationConfigs(command) :
         /\ targetSchema' = s
         /\ validationConfig' = cfg
         /\ results' = IF command = "null"
                       THEN [t \in {s[i].TableName : i \in 1..Len(s)} |-> FixResult]
                       ELSE EmptyResults
    /\ call' = [fn |-> command, action |-> fixAction, dryRun |-> dryRun]
    /\ dbAtCall' = db
    /\ k' = 1
    /\ pc' = "fix"
    /\ UNCHANGED <<flagVars, dryRun, conn, db, log, faults>>
    /\ UNCHANGED auxVars

\* one foreign key of FixForeignKeyViolations
FixForeignKeyStep ==
    /\ pc = "fix"
    /\ call.fn = "fk"
    /\ k <= Len(ForeignKeysOf(targetSchema))
    /\ \E fault \in Faults :
         /\ fault # "none" => faults < MaxFaults
         /\ faults' = IF fault = "none" THEN faults ELSE faults + 1
         /\ LET out == FixForeignKeyBody(db, results, ForeignKeysOf(targetSchema)[k],
                                         call.action, call.dryRun, validationConfig, fault)
            IN  /\ db' = out.db
                /\ results' = out.results
                /\ log' = Append(log, out.ev)
                /\ IF HaltsOnError(out.ev.findErr, out.ev.fixErr)
                   THEN pc' = "fix_error" /\ conn' = Close(conn)
                   ELSE pc' = pc /\ conn' = conn
    /\ k' = k + 1
    /\ UNCHANGED <<flagVars, dryRun, targetSchema, validationConfig, call, dbAtCall>>
    /\ UNCHANGED auxVars

\* one NOT NULL column of FixNullValueViolations
FixNullValueStep ==
    /\ pc = "fix"
    /\ call.fn = "null"
    /\ k <= Len(NotNullColumnsOf(targetSchema))
    /\ \E fault \in Faults :
         /\ fault # "none" => faults < MaxFaults
         /\ faults' = IF fault = "none" THEN faults ELSE faults + 1
         /\ LET out == FixNullValueBody(db, results, NotNullColumnsOf(targetSchema)[k],
                                        call.action, defaultValue, call.dryRun,
                                        validationConfig, fault)
            IN  /\ db' = out.db
                /\ results' = out.results
                /\ log' = Append(log, out.ev)
                /\ IF HaltsOnError(out.ev.findErr, out.ev.fixErr)
                   THEN pc' = "fix_error" /\ conn' = Close(conn)
                   ELSE pc' = pc /\ conn' = conn
    /\ k' = k + 1
    /\ UNCHANGED <<flagVars, dryRun, targetSchema, validationConfig, call, dbAtCall>>
    /\ UNCHANGED auxVars

WorkLen ==
    IF call.fn = "fk" THEN Len(ForeignKeysOf(targetSchema))
    ELSE Len(NotNullColumnsOf(targetSchema))

\* The engine returns (results, nil); RunE prints them and the deferred
\* Close releases the connection.
Finish ==
    /\ pc = "fix"
    /\ k > WorkLen
    /\ pc' = "done"
    /\ conn' = Close(conn)
    /\ UNCHANGED <<flagVars, dryRun, db, targetSchema, validationConfig, call,
                   dbAtCall, k, results, log, faults>>
    /\ UNCHANGED auxVars

Next ==
    \/ RunEGate
    \/ Connect
    \/ LoadSchemaFails
    \/ InvokeFix
    \/ FixForeignKeyStep
    \/ FixNullValueStep
    \/ Finish

Spec == Init /\ [][Next]_vars

\* ------------------------------------------------------------ engine runs
\* The states right after InvokeFix, over every live database and schema
\* file of the bounds, reached by `fix <cmd> --action ...` (dry run) or
\* `fix <cmd> --action ... --confirm`.
InitEngine ==
    /\ command \in Commands
    /\ dryRunFlag = "absent"
    /\ confirmFlag \in {"absent", "true"}
    /\ fixAction \in Actions
    /\ defaultValue \in (IF command = "null" THEN DefaultValues ELSE {""})
    /\ ~ActionError(command, fixAction, defaultValue)
    /\ confirmChanges = (confirmFlag = "true")
    /\ dryRun = ResolveDryRun(dryRunFlag, confirmFlag, FALSE, confirmChanges)
    /\ pc = "fix"
    /\ conn = "open"
    /\ db \in Databases(command)
    /\ targetSchema \in TargetSchemas(command)
    /\ validationConfig \in ValidationConfigs(command)
    /\ call = [fn |-> command, action |-> fixAction, dryRun |-> dryRun]
    /\ dbAtCall = db
    /\ k = 1
    /\ results = IF command = "null"
                 THEN [t \in {targetSchema[i].TableName : i \in 1..Len(targetSchema)} |-> FixResult]
                 ELSE EmptyResults
    /\ log = <<>>
    /\ faults = 0
    /\ currentSchema = <<>>
    /\ comparison = NoComparison
    /\ issues = <<>>

NextEngine ==
    \/ FixForeignKeyStep
    \/ FixNullValueStep
    \/ Finish

SpecEngine == InitEngine /\ [][NextEngine]_vars

\* ------------------------------------------------------------ schema compare
\* Columns of the compared schemas: column "id" in a base form and in forms
\* that differ from it in one attribute each, column "ref" in two forms.
CmpColumns ==
    { FullColumn("id", "int", "YES", NilValue, NULL),
      FullColumn("id", "text", "YES", NilValue, NULL),
      FullColumn("id", "int", "NO", NilValue, NULL),
      FullColumn("id", "int", "YES", NumberValue(1), NULL),
      FullColumn("id", "int", "YES", StringValue("1"), NULL),
      FullColumn("id", "int", "YES", NilValue, 10),
      FullColumn("ref", "int", "YES", NilValue, NULL),
      FullColumn("ref", "text", "YES", NilValue, NULL) }

\* Foreign keys of the compared schemas: a.ref -> a.id or b.id, under two
\* constraint names and two delete rules.
CmpForeignKeys ==
    { FullForeignKey(cn, "a", "ref", rt, "id", del) :
        cn \in {"fk", "fk2"}, rt \in TableNames, del \in {"", "CASCADE"} }

\* schemas that differ in which tables they hold (names may repeat)
TableLevelSchemas ==
    SeqsUpTo({ [TableName |-> n, Columns |-> cs, ForeignKeys |-> <<>>] :
                 n \in TableNames,
                 cs \in {<<>>, <<FullColumn("id", "int", "YES", NilValue, NULL)>>,
                         <<FullColumn("id", "text", "YES", NilValue, NULL)>>} },
             MaxTables)

\* schemas of one table that differ in its columns (names may repeat)
ColumnLevelSchemas ==
    { <<[TableName |-> "a", Columns |-> cs, ForeignKeys |-> <<>>]>> :
        cs \in SeqsUpTo(CmpColumns, MaxColumns) }

\* schemas of one table that differ in its foreign keys
ForeignKeyLevelSchemas ==
    { <<[TableName |-> "a",
         Columns |-> <<FullColumn("ref", "int", "YES", NilValue, NULL)>>,
         ForeignKeys |-> fks]>> :
        fks \in SeqsUpTo(CmpForeignKeys, MaxFKs) }

\* Foreign keys of table a as a schema file may give them: TableName is
\* filled in or left empty.
CmpOwnedForeignKeys ==
    { FullForeignKey("fk", tn, "ref", rt, "id", "") :
        tn \in {"", "a"}, rt \in TableNames }

\* schemas of one table whose foreign keys may leave TableName empty
OwnedForeignKeySchemas ==
    { <<[TableName |-> "a",
         Columns |-> <<FullColumn("ref", "int", "YES", NilValue, NULL)>>,
         ForeignKeys |-> fks]>> :
        fks \in SeqsUpTo(CmpOwnedForeignKeys, MaxFKs) }

\* (current, target) pairs handed to CompareSchemas
ComparedPairs ==
    (TableLevelSchemas \X TableLevelSchemas)
    \cup (ColumnLevelSchemas \X ColumnLevelSchemas)
    \cup (ForeignKeyLevelSchemas \X ForeignKeyLevelSchemas)
    \cup (OwnedForeignKeySchemas \X OwnedForeignKeySchemas)

\* `schema compare` after the live schema and the schema file are loaded
InitCompare ==
    /\ command = "compare"
    /\ dryRunFlag = "absent"
    /\ confirmFlag = "absent"
    /\ fixAction = ""
    /\ defaultValue = ""
    /\ dryRun = FALSE
    /\ confirmChanges = FALSE
    /\ pc = "compare"
    /\ conn = "open"
    /\ db = [t \in TableNames |-> NoTable]
    /\ \E pair \in ComparedPairs :
         /\ currentSchema = pair[1]
         /\ targetSchema = pair[2]
    /\ validationConfig = [IgnoreMissingTables |-> FALSE, IgnoreMissingColumns |-> FALSE]
    /\ call = NoCall
    /\ dbAtCall = db
    /\ k = 1
    /\ results = EmptyResults
    /\ log = <<>>
    /\ faults = 0
    /\ comparison = NoComparison
    /\ issues = <<>>

\* comparison := schema.CompareSchemas(currentSchema, targetSchema)
CompareSchemasStep ==
    /\ pc = "compare"
    /\ comparison' \in CompareSchemas(currentSchema, targetSchema)
    /\ pc' = "compared"
    /\ UNCHANGED <<flagVars, dryRun, conn, db, targetSchema, validationConfig,
                   call, dbAtCall, k, results, log, faults, currentSchema, issues>>

NextCompare == CompareSchemasStep

SpecCompare == InitCompare /\ [][NextCompare]_vars
\* ------------------------------------------------------------ validation
\* Live tables without any of the identifier columns getIdentifierColumn
\* looks for (a join table): column "ref" only, one row.
KeylessTables(cmd) ==
    { [exists |-> TRUE, cols |-> {"ref"}, rows |-> <<[id |-> NULL, ref |-> v]>>] :
        v \in (IF cmd = "validate_fk" THEN {NULL, 1, 2} ELSE {NULL, 1}) }

\* Live databases the validators are run against.
ValidateDatabases(cmd) ==
    IF cmd = "validate_fk"
    THEN [TableNames -> LiveTables("fk") \cup KeylessTables(cmd)]
    ELSE { [t \in TableNames |-> IF t = "a" THEN ta ELSE tb] :
             ta \in LiveTables("null") \cup KeylessTables(cmd),
             tb \in {NoTable, PlainTable(<<>>), PlainTable(<<[id |-> 1, ref |-> NULL]>>)} }

\* ValidationConfig as the NOT NULL validator reads it; ValidateForeignKeys
\* takes none.
ValidateConfigs(cmd) ==
    IF cmd = "validate_fk"
    THEN {[IgnoreMissingTables |-> FALSE, IgnoreMissingColumns |-> FALSE,
           StopOnFirstError |-> FALSE, MaxIssuesPerTable |-> 0]}
    ELSE [IgnoreMissingTables : BOOLEAN, IgnoreMissingColumns : BOOLEAN,
          StopOnFirstError : BOOLEAN, MaxIssuesPerTable : {0, 1}]

\* models.ValidationIssue; key is the position of the foreign key in the
\* schema (0 for the NOT NULL validator), row the live row it reports (0
\* when it reports none).
Issue(type, severity, table, column, key, row) ==
    [Type |-> type, Severity |-> severity, Table |-> table, Column |-> column,
     key |-> key, row |-> row]

\* a set of row numbers in increasing order
SortedSeq(S) ==
    [i \in 1..Cardinality(S) |->
        CHOOSE x \in S : Cardinality({ y \in S : y < x }) = i - 1]

\* The row sets a query with LIMIT n can return out of the matching rows.
LimitedRows(matching, n) == { R \in SUBSET matching : Cardinality(R) = n }

\* ValidateForeignKeys that returns at the first failed find.
ValidateAborts_OnError(err) == err

\* ValidateForeignKeys turns a failed find into an issue and continues.
ValidateAborts(err) == FALSE

\* The issues ValidateForeignKeys appends for foreign key number key, given
\* the outcome f of its find and the rows the anti-join returned.
ForeignKeyIssues(fk, key, f, reported) ==
    IF f.err
    THEN <<Issue("foreign_key_validation_error", "error",
                 fk.TableName, fk.ColumnName, key, 0)>>
    ELSE IF f.type = "foreign_key_violation"
    THEN [i \in 1..Cardinality(reported) |->
            Issue("foreign_key_violation", "error", fk.TableName, fk.ColumnName,
                  key, SortedSeq(reported)[i])]
    ELSE <<Issue(f.type, "error", fk.TableName, fk.ColumnName, key, 0)>>

\* findNullViolations(tableName, column, maxIssues): the limit is maxIssues
\* when positive, else the default
findNullViolationsMax(d, t, c, maxIssues, fault) ==
    IF fault = "query" \/ ~columnExists(d, t, c)
       \/ ~columnExists(d, t, getIdentifierColumn(d, t))
    THEN [err |-> TRUE, n |-> 0]
    ELSE [err |-> FALSE,
          n |-> Min(Cardinality(NullRows(d, t, c)),
                    IF maxIssues > 0 THEN maxIssues ELSE QueryLimit)]

\* The steps of ValidateNotNullConstraintsWithConfig in loop order: one per
\* table (its existence check), then one per NOT NULL column of the table.
RECURSIVE ValidateNotNullItems(_)
ValidateNotNullItems(schema) ==
    IF schema = <<>> THEN <<>>
    ELSE LET t == Head(schema)
             cols == NotNullColumnsOf(<<t>>)
         IN  <<[kind |-> "table", TableName |-> t.TableName, ColumnName |-> "",
                columns |-> Len(cols)]>>
             \o [i \in 1..Len(cols) |->
                   [kind |-> "column", TableName |-> cols[i].TableName,
                    ColumnName |-> cols[i].ColumnName, columns |-> 0]]
             \o ValidateNotNullItems(Tail(schema))

\* MissingTableIssues that reports a missing table whatever the config.
MissingTableIssues_Always(cfg, t) ==
    <<Issue("missing_table", "warning", t, "", 0, 0)>>

\* what a missing table adds to the issues
MissingTableIssues(cfg, t) ==
    IF cfg.IgnoreMissingTables THEN <<>>
    ELSE <<Issue("missing_table", "warning", t, "", 0, 0)>>

\* what a missing column adds to the issues
MissingColumnIssues(cfg, t, c) ==
    IF cfg.IgnoreMissingColumns THEN <<>>
    ELSE <<Issue("missing_column", "warning", t, c, 0, 0)>>

\* A validator that never stops at an internal error.
StopsOnError_Never(cfg) == FALSE

\* if validationConfig.StopOnFirstError { return nil, err }
StopsOnError(cfg) == cfg.StopOnFirstError

\* One step of ValidateNotNullConstraintsWithConfig. abort: the call returns
\* (nil, err); skip: the columns of the table are not visited; queried: the
\* null-violation query was run; reported: the rows it returned.
ValidateNotNullItem(d, item, cfg, fault, reported) ==
    LET t == item.TableName
        c == item.ColumnName
        none == [abort |-> FALSE, skip |-> FALSE, queried |-> FALSE, add |-> <<>>]
    IN  IF item.kind = "table"
        THEN IF fault = "probe"
             THEN IF StopsOnError(cfg) THEN [none EXCEPT !.abort = TRUE]
                  ELSE [none EXCEPT !.skip = TRUE,
                                    !.add = <<Issue("table_check_error", "error", t, "", 0, 0)>>]
             ELSE IF ~tableExists(d, t)
             THEN [none EXCEPT !.skip = TRUE, !.add = MissingTableIssues(cfg, t)]
             ELSE none
        ELSE IF fault = "probe"
             THEN IF StopsOnError(cfg) THEN [none EXCEPT !.abort = TRUE]
                  ELSE [none EXCEPT !.add = <<Issue("column_check_error", "error", t, c, 0, 0)>>]
             ELSE IF ~columnExists(d, t, c)
             THEN [none EXCEPT !.add = MissingColumnIssues(cfg, t, c)]
             ELSE LET f == findNullViolationsMax(d, t, c, cfg.MaxIssuesPerTable, fault)
                  IN  IF f.err
                      THEN IF StopsOnError(cfg)
                           THEN [none EXCEPT !.abort = TRUE, !.queried = TRUE]
                           ELSE [none EXCEPT !.queried = TRUE,
                                             !.add = <<Issue("validation_error", "error", t, c, 0, 0)>>]
                      ELSE [none EXCEPT !.queried = TRUE,
                                        !.add = [i \in 1..Cardinality(reported) |->
                                                   Issue("null_constraint_violation", "error",
                                                         t, c, 0, SortedSeq(reported)[i])]]
\* `validate fk` / the NOT NULL validator right after the schema is loaded
InitValidate ==
    /\ command \in {"validate_fk", "validate_null"}
    /\ dryRunFlag = "absent"
    /\ confirmFlag = "absent"
    /\ fixAction = ""
    /\ defaultValue = ""
    /\ dryRun = FALSE
    /\ confirmChanges = FALSE
    /\ pc = "validate"
    /\ conn = "open"
    /\ db \in ValidateDatabases(command)
    /\ targetSchema \in (IF command = "validate_fk" THEN FKSchemas ELSE NullSchemas)
    /\ validationConfig \in ValidateConfigs(command)
    /\ call = [fn |-> command, action |-> "", dryRun |-> TRUE]
    /\ dbAtCall = db
    /\ k = 1
    /\ results = EmptyResults
    /\ log = <<>>
    /\ faults = 0
    /\ currentSchema = <<>>
    /\ comparison = NoComparison
    /\ issues = <<>>

\* one foreign key of ValidateForeignKeys
ValidateForeignKeyStep ==
    /\ pc = "validate"
    /\ command = "validate_fk"
    /\ k <= Len(ForeignKeysOf(targetSchema))
    /\ \E fault \in {"none", "probe", "query"} :
         /\ fault # "none" => faults < MaxFaults
         /\ faults' = IF fault = "none" THEN faults ELSE faults + 1
         /\ LET fk == ForeignKeysOf(targetSchema)[k]
                f == findForeignKeyViolations(db, fk, fault)
            IN  \E reported \in (IF ~f.err /\ f.type = "foreign_key_violation"
                                  THEN LimitedRows(Orphans(db, fk), f.n) ELSE {{}}) :
                    /\ log' = Append(log, [table |-> fk.TableName, column |-> fk.ColumnName,
                                           item |-> k, fault |-> fault, findErr |-> f.err,
                                           type |-> f.type, found |-> f.n,
                                           queried |-> f.queried])
                    /\ IF ValidateAborts(f.err)
                       THEN issues' = <<>> /\ pc' = "validate_error"
                       ELSE /\ issues' = issues \o ForeignKeyIssues(fk, k, f, reported)
                            /\ pc' = pc
    /\ k' = k + 1
    /\ UNCHANGED <<flagVars, dryRun, conn, db, targetSchema, validationConfig, call,
                   dbAtCall, results, currentSchema, comparison>>

\* one table check or one NOT NULL column of ValidateNotNullConstraintsWithConfig
ValidateNotNullStep ==
    /\ pc = "validate"
    /\ command = "validate_null"
    /\ k <= Len(ValidateNotNullItems(targetSchema))
    /\ LET item == ValidateNotNullItems(targetSchema)[k]
       IN  \E fault \in (IF item.kind = "table" THEN {"none", "probe"}
                          ELSE {"none", "probe", "query"}) :
             /\ fault # "none" => faults < MaxFaults
             /\ faults' = IF fault = "none" THEN faults ELSE faults + 1
             /\ LET f == findNullViolationsMax(db, item.TableName, item.ColumnName,
                                               validationConfig.MaxIssuesPerTable, fault)
                    runs == item.kind = "column" /\ fault # "probe" /\ ~f.err
                IN  \E reported \in (IF runs
                                      THEN LimitedRows(NullRows(db, item.TableName,
                                                                item.ColumnName), f.n)
                                      ELSE {{}}) :
                      LET out == ValidateNotNullItem(db, item, validationConfig, fault, reported)
                      IN  /\ log' = Append(log, [table |-> item.TableName,
                                                 column |-> item.ColumnName,
                                                 item |-> k, fault |-> fault, kind |-> item.kind,
                                                 abort |-> out.abort, skip |-> out.skip,
                                                 queried |-> out.queried,
                                                 found |-> Len(out.add)])
                          /\ IF out.abort
                             THEN issues' = <<>> /\ pc' = "validate_error" /\ k' = k + 1
                             ELSE /\ issues' = issues \o out.add
                                  /\ pc' = pc
                                  /\ k' = IF out.skip THEN k + 1 + item.columns ELSE k + 1
    /\ UNCHANGED <<flagVars, dryRun, conn, db, targetSchema, validationConfig, call,
                   dbAtCall, results, currentSchema, comparison>>

\* return issues, nil
FinishValidate ==
    /\ pc = "validate"
    /\ k > (IF command = "validate_fk" THEN Len(ForeignKeysOf(targetSchema))
            ELSE Len(ValidateNotNullItems(targetSchema)))
    /\ pc' = "validated"
    /\ UNCHANGED <<flagVars, dryRun, conn, db, targetSchema, validationConfig, call,
                   dbAtCall, k, results, log, faults, currentSchema, comparison, issues>>

NextValidate ==
    \/ ValidateForeignKeyStep
    \/ ValidateNotNullStep
    \/ FinishValidate

SpecValidate == InitValidate /\ [][NextValidate]_vars

\* ------------------------------------------------------- whole commands
\* `validate fk`, `validate null` and `schema compare` before they connect;
\* they have no flags to check.
InitOtherCommands ==
    /\ command \in {"validate_fk", "validate_null", "compare"}
    /\ dryRunFlag = "absent"
    /\ confirmFlag = "absent"
    /\ fixAction = ""
    /\ defaultValue = ""
    /\ dryRun = FALSE
    /\ confirmChanges = FALSE
    /\ pc = "gated"
    /\ conn = "none"
    /\ db \in (IF command = "compare" THEN {[t \in TableNames |-> NoTable]}
               ELSE { d \in ValidateDatabases(command) : d["b"] = PlainTable(<<>>) })
    /\ targetSchema = <<>>
    /\ validationConfig = [IgnoreMissingTables |-> FALSE, IgnoreMissingColumns |-> FALSE]
    /\ call = NoCall
    /\ dbAtCall = db
    /\ k = 1
    /\ results = EmptyResults
    /\ log = <<>>
    /\ faults = 0
    /\ currentSchema = <<>>
    /\ comparison = NoComparison
    /\ issues = <<>>

InitCommands == Init \/ InitOtherCommands

\* the engine call of the fix commands
InvokeFixCommand == command \in Commands /\ InvokeFix

\* Schema loaded; ValidateForeignKeys or ValidateNotNullConstraints (nil
\* config: the defaults) is called.
InvokeValidate ==
    /\ pc = "connected"
    /\ command \in {"validate_fk", "validate_null"}
    /\ targetSchema' \in (IF command = "validate_fk" THEN FKSchemas ELSE NullSchemas)
    /\ validationConfig' = [IgnoreMissingTables |-> FALSE, IgnoreMissingColumns |-> FALSE,
                            StopOnFirstError |-> FALSE, MaxIssuesPerTable |-> 0]
    /\ call' = [fn |-> command, action |-> "", dryRun |-> TRUE]
    /\ dbAtCall' = db
    /\ k' = 1
    /\ pc' = "validate"
    /\ UNCHANGED <<flagVars, dryRun, conn, db, results, log, faults,
                   currentSchema, comparison, issues>>

\* Live schema read and schema file loaded; CompareSchemas is called next.
InvokeCompare ==
    /\ pc = "connected"
    /\ command = "compare"
    /\ currentSchema' \in { s \in ForeignKeyLevelSchemas : Len(s[1].ForeignKeys) <= 1 }
    /\ targetSchema' \in { s \in ForeignKeyLevelSchemas : Len(s[1].ForeignKeys) <= 1 }
    /\ pc' = "compare"
    /\ UNCHANGED <<flagVars, dryRun, conn, db, validationConfig, call, dbAtCall, k,
                   results, log, faults, comparison, issues>>

\* The validator or the differ has returned: RunE reports the error or
\* formats the report, returns, and the deferred Close runs.
ReturnFromCommand ==
    /\ pc \in {"validated", "validate_error", "compared"}
    /\ pc' \in (IF pc = "validate_error" THEN {"validate_failed"}
                ELSE {"done", "output_error"})
    /\ conn' = Close(conn)
    /\ UNCHANGED <<flagVars, dryRun, db, targetSchema, validationConfig, call,
                   dbAtCall, k, results, log, faults, currentSchema, comparison,
                   issues>>

NextCommands ==
    \/ RunEGate
    \/ Connect
    \/ LoadSchemaFails
    \/ InvokeFixCommand
    \/ FixForeignKeyStep
    \/ FixNullValueStep
    \/ Finish
    \/ InvokeValidate
    \/ ValidateForeignKeyStep
    \/ ValidateNotNullStep
    \/ FinishValidate
    \/ InvokeCompare
    \/ CompareSchemasStep
    \/ ReturnFromCommand

SpecCommands == InitCommands /\ [][NextCommands]_vars

\* ------------------------------------------------------ validating twice
\* The validator is called a second time on the same connection, schema and
\* database; the issues of the first call are kept in the log.
ValidateAgain ==
    /\ pc = "validated"
    /\ call.fn # "again"
    /\ call' = [call EXCEPT !.fn = "again"]
    /\ log' = <<[issues |-> issues]>>
    /\ issues' = <<>>
    /\ k' = 1
    /\ pc' = "validate"
    /\ UNCHANGED <<flagVars, dryRun, conn, db, targetSchema, validationConfig,
                   dbAtCall, results, faults, currentSchema, comparison>>

\* the validator steps with every probe and query answering
AnsweredForeignKeyStep == ValidateForeignKeyStep /\ faults' = faults

AnsweredNotNullStep == ValidateNotNullStep /\ faults' = faults

NextRevalidate ==
    \/ AnsweredForeignKeyStep
    \/ AnsweredNotNullStep
    \/ FinishValidate
    \/ ValidateAgain

SpecRevalidate == InitValidate /\ [][NextRevalidate]_vars

\* ---------------------------------------------------- single functions
\* Column names a live table is given when its identifier column is looked
\* up: the names getIdentifierColumn tries for tables "a" and "b", and one
\* it does not.
IdentifierPool == {"id", "a_id", "b_id", "uuid", "guid", "key", "ref"}

\* column lists in ordinal order, no name twice
OrdinalLists ==
    { o \in SeqsUpTo(IdentifierPool, MaxColumns) :
        \A i \in 1..Len(o) : \A j \in 1..Len(o) : o[i] = o[j] => i = j }

\* a live table with its columns in ordinal order
OrderedTable(o) ==
    [exists |-> TRUE, cols |-> { o[i] : i \in 1..Len(o) }, rows |-> <<>>,
     order |-> o]

\* Live databases of the identifier lookup: one table, "a" or "b".
IdentifierDatabases ==
    { [t \in TableNames |-> IF t = n THEN OrderedTable(o) ELSE NoTable] :
        n \in TableNames, o \in OrdinalLists }

\* seqs[1] \o seqs[2] \o ...
RECURSIVE Flatten(_)
Flatten(seqs) ==
    IF seqs = <<>> THEN <<>> ELSE Head(seqs) \o Flatten(Tail(seqs))

\* a duplicate check that only looks at the entry just before
SeenBefore_Adjacent(names, n) == n > 1 /\ names[n - 1] = names[n]

\* tableNames[name] / columnNames[name]: the name was met earlier in the loop
SeenBefore(names, n) == \E m \in 1..(n - 1) : names[m] = names[n]

\* Schema.GetTable: the first table of the name, 0 for nil
GetTable(schema, name) ==
    IF \E n \in 1..Len(schema) : schema[n].TableName = name
    THEN CHOOSE n \in 1..Len(schema) :
            /\ schema[n].TableName = name
            /\ \A m \in 1..(n - 1) : schema[m].TableName # name
    ELSE 0

\* Table.GetColumn: whether the table has a column of the name
GetColumn(table, name) ==
    \E m \in 1..Len(table.Columns) : table.Columns[m].ColumnName = name

\* the issues ValidateSchema appends for column m of table n
SchemaColumnIssues(schema, n, m) ==
    LET table == schema[n]
        column == table.Columns[m]
    IN  (IF SeenBefore(ColumnKeys(table.Columns), m)
         THEN <<Issue("duplicate_column", "error", table.TableName,
                      column.ColumnName, n, 0)>>
         ELSE <<>>)
        \o (IF column.ColumnName = ""
            THEN <<Issue("invalid_column", "error", table.TableName, "", n, 0)>>
            ELSE <<>>)
        \o (IF column.DataType = ""
            THEN <<Issue("invalid_column", "error", table.TableName,
                         column.ColumnName, n, 0)>>
            ELSE <<>>)

\* the issues ValidateSchema appends for foreign key f of table n
SchemaForeignKeyIssues(schema, n, f) ==
    LET table == schema[n]
        fk == table.ForeignKeys[f]
        referencedTable == GetTable(schema, fk.ReferencedTable)
    IN  (IF referencedTable = 0
            \/ ~GetColumn(schema[referencedTable], fk.ReferencedColumn)
         THEN <<Issue("invalid_foreign_key", "warning", table.TableName,
                      fk.ColumnName, n, 0)>>
         ELSE <<>>)
        \o (IF ~GetColumn(table, fk.ColumnName)
            THEN <<Issue("invalid_foreign_key", "error", table.TableName,
                         fk.ColumnName, n, 0)>>
            ELSE <<>>)

\* the issues ValidateSchema appends for table n
SchemaTableIssues(schema, n) ==
    LET table == schema[n]
    IN  (IF SeenBefore(TableKeys(schema), n)
         THEN <<Issue("duplicate_table", "error", table.TableName, "", n, 0)>>
         ELSE <<>>)
        \o Flatten([m \in 1..Len(table.Columns) |-> SchemaColumnIssues(schema, n, m)])
        \o Flatten([f \in 1..Len(table.ForeignKeys) |->
                        SchemaForeignKeyIssues(schema, n, f)])

\* ValidateSchema; key of an issue is the position of its table
ValidateSchema(schema) ==
    Flatten([n \in 1..Len(schema) |-> SchemaTableIssues(schema, n)])

\* Schemas handed to ValidateSchema: up to MaxTables + 1 tables whose names
\* may repeat, or one table of up to MaxColumns + 1 columns whose names may
\* repeat, be empty or lack a data type.
ValidatedSchemas ==
    SeqsUpTo(UNION { { [TableName |-> n, Columns |-> cs, ForeignKeys |-> fks] :
                         cs \in {<<>>, <<FullColumn("id", "int", "YES", NilValue, NULL)>>},
                         fks \in {<<>>,
                                  <<FullForeignKey("fk", n, "ref", "a", "id", "")>>,
                                  <<FullForeignKey("fk", n, "id", "b", "id", "")>>} } :
                     n \in TableNames },
             MaxTables + 1)
    \cup { <<[TableName |-> "a", Columns |-> cs, ForeignKeys |-> <<>>]>> :
             cs \in SeqsUpTo({ FullColumn("id", "int", "YES", NilValue, NULL),
                               FullColumn("ref", "int", "YES", NilValue, NULL),
                               FullColumn("", "int", "YES", NilValue, NULL),
                               FullColumn("id", "", "YES", NilValue, NULL) },
                             MaxColumns + 1) }

\* a *int field: <<>> for nil, <<n>> for a pointer to n
NilInt == <<>>

IntPtr(n) == <<n>>

\* the length information_schema reports for an unbounded character type
MaxLength == 2147483647

\* a GetFullDataType that formats the unbounded length too
NotMaxLength_Always(n) == TRUE

\* *c.CharacterMaxLength < 2147483647
NotMaxLength(n) == n < MaxLength

\* models.Column, the fields GetFullDataType reads
SizedColumn(type, length, precision, scale, datetime) ==
    [DataType |-> type, CharacterMaxLength |-> length,
     NumericPrecision |-> precision, NumericScale |-> scale,
     DatetimePrecision |-> datetime]

\* fmt.Sprintf("%s(%d)", dataType, n)
Sized(dataType, n) == dataType \o "(" \o ToString(n) \o ")"

\* fmt.Sprintf("%s(%d,%d)", dataType, p, s)
Sized2(dataType, n, m) ==
    dataType \o "(" \o ToString(n) \o "," \o ToString(m) \o ")"

\* Column.GetFullDataType: the three blocks in order, each falling through
\* to the next when its switch does not return
GetFullDataType(c) ==
    LET dataType == c.DataType
        datetime ==
            IF c.DatetimePrecision # NilInt /\ c.DatetimePrecision[1] > 0
               /\ dataType \in {"timestamp", "time", "interval"}
            THEN Sized(dataType, c.DatetimePrecision[1])
            ELSE dataType
        numeric ==
            IF c.NumericPrecision # NilInt /\ c.NumericPrecision[1] > 0
               /\ dataType \in {"numeric", "decimal", "money"}
            THEN IF c.NumericScale # NilInt /\ c.NumericScale[1] > 0
                 THEN Sized2(dataType, c.NumericPrecision[1], c.NumericScale[1])
                 ELSE Sized(dataType, c.NumericPrecision[1])
            ELSE datetime
    IN  IF c.CharacterMaxLength # NilInt /\ c.CharacterMaxLength[1] > 0
           /\ dataType \in {"character varying", "varchar", "char", "character", "text"}
           /\ NotMaxLength(c.CharacterMaxLength[1])
        THEN Sized(dataType, c.CharacterMaxLength[1])
        ELSE numeric

\* Columns handed to GetFullDataType: two types of each family and one of
\* none, every size field nil, non-positive or positive, the length also
\* unbounded.
SizedColumns ==
    { SizedColumn(type, length, precision, scale, datetime) :
        type \in {"character varying", "text", "numeric", "money", "timestamp",
                  "interval", "integer"},
        length \in {NilInt, IntPtr(-1), IntPtr(0), IntPtr(50), IntPtr(MaxLength)},
        precision \in {NilInt, IntPtr(0), IntPtr(10)},
        scale \in {NilInt, IntPtr(0), IntPtr(2)},
        datetime \in {NilInt, IntPtr(0), IntPtr(3)} }

\* A statement is a list of pieces: SQL text, or an identifier with the
\* character the format string puts on both sides of it.
Sql(text) == [kind |-> "sql", text |-> text, quote |-> ""]

Ident(quote, name) == [kind |-> "identifier", text |-> name, quote |-> quote]

DatabaseTypes == {"postgres", "mysql"}

\* the two quote characters, by name
Backtick == "backtick"

DoubleQuote == "double quote"

\* dialect.GetIdentifierQuote()
GetIdentifierQuote(dbType) == IF dbType = "mysql" THEN Backtick ELSE DoubleQuote

\* dialect.GetForeignKeyViolationsQuery(fk, identifierCol)
GetForeignKeyViolationsQuery(dbType, fk, identifierCol) ==
    LET q == GetIdentifierQuote(dbType)
    IN  <<Sql("SELECT "), Ident(q, fk.ColumnName), Sql(", "), Ident(q, identifierCol),
          Sql(" FROM "), Ident(q, fk.TableName), Sql(" t1 WHERE "),
          Ident(q, fk.ColumnName),
          Sql(" IS NOT NULL AND NOT EXISTS (SELECT 1 FROM "),
          Ident(q, fk.ReferencedTable), Sql(" t2 WHERE t2."),
          Ident(q, fk.ReferencedColumn), Sql(" = t1."), Ident(q, fk.ColumnName),
          Sql(") LIMIT 1000")>>

\* the query findNullViolations formats itself
findNullViolationsQuery(dbType, tableName, columnName, identifierCol) ==
    <<Sql("SELECT "), Ident(DoubleQuote, identifierCol), Sql(" FROM "),
      Ident(DoubleQuote, tableName), Sql(" WHERE "), Ident(DoubleQuote, columnName),
      Sql(" IS NULL LIMIT limit")>>

\* the statement of removeForeignKeyViolatingRecords
removeForeignKeyViolatingRecordsQuery(dbType, fk) ==
    <<Sql("DELETE FROM "), Ident(DoubleQuote, fk.TableName), Sql(" WHERE "),
      Ident(DoubleQuote, fk.ColumnName),
      Sql(" IS NOT NULL AND NOT EXISTS (SELECT 1 FROM "),
      Ident(DoubleQuote, fk.ReferencedTable), Sql(" AS ref_table WHERE ref_table."),
      Ident(DoubleQuote, fk.ReferencedColumn), Sql(" = "), Ident(DoubleQuote, fk.TableName),
      Sql("."), Ident(DoubleQuote, fk.ColumnName), Sql(")")>>

\* the statement of setForeignKeyColumnsToNull
setForeignKeyColumnsToNullQuery(dbType, fk) ==
    <<Sql("UPDATE "), Ident(DoubleQuote, fk.TableName), Sql(" SET "),
      Ident(DoubleQuote, fk.ColumnName), Sql(" = NULL WHERE "),
      Ident(DoubleQuote, fk.ColumnName),
      Sql(" IS NOT NULL AND NOT EXISTS (SELECT 1 FROM "),
      Ident(DoubleQuote, fk.ReferencedTable), Sql(" AS ref_table WHERE ref_table."),
      Ident(DoubleQuote, fk.ReferencedColumn), Sql(" = "), Ident(DoubleQuote, fk.TableName),
      Sql("."), Ident(DoubleQuote, fk.ColumnName), Sql(")")>>

\* the statement of removeNullValueRecords
removeNullValueRecordsQuery(dbType, tableName, columnName) ==
    <<Sql("DELETE FROM "), Ident(DoubleQuote, tableName), Sql(" WHERE "),
      Ident(DoubleQuote, columnName), Sql(" IS NULL")>>

\* the statement of setNullValuesToDefault
setNullValuesToDefaultQuery(dbType, tableName, columnName) ==
    <<Sql("UPDATE "), Ident(DoubleQuote, tableName), Sql(" SET "),
      Ident(DoubleQuote, columnName), Sql(" = $1 WHERE "), Ident(DoubleQuote, columnName),
      Sql(" IS NULL")>>

\* the functions of the engine that send a statement
StatementFunctions ==
    {"findForeignKeyViolations", "findNullViolations",
     "removeForeignKeyViolatingRecords", "setForeignKeyColumnsToNull",
     "removeNullValueRecords", "setNullValuesToDefault"}

\* the statement function fn sends on a connection of type dbType
StatementOf(fn, dbType, fk, identifierCol) ==
    CASE fn = "findForeignKeyViolations" ->
            GetForeignKeyViolationsQuery(dbType, fk, identifierCol)
      [] fn = "findNullViolations" ->
            findNullViolationsQuery(dbType, fk.TableName, fk.ColumnName, identifierCol)
      [] fn = "removeForeignKeyViolatingRecords" ->
            removeForeignKeyViolatingRecordsQuery(dbType, fk)
      [] fn = "setForeignKeyColumnsToNull" ->
            setForeignKeyColumnsToNullQuery(dbType, fk)
      [] fn = "removeNullValueRecords" ->
            removeNullValueRecordsQuery(dbType, fk.TableName, fk.ColumnName)
      [] fn = "setNullValuesToDefault" ->
            setNullValuesToDefaultQuery(dbType, fk.TableName, fk.ColumnName)

\* the inputs of the functions checked on their own
InitFunctions ==
    /\ command \in {"identifier", "validate_schema", "full_type", "statement"}
    /\ dryRunFlag = "absent"
    /\ confirmFlag = "absent"
    /\ fixAction = ""
    /\ defaultValue = ""
    /\ dryRun = FALSE
    /\ confirmChanges = FALSE
    /\ pc = "call"
    /\ conn = "open"
    /\ db \in (IF command = "identifier" THEN IdentifierDatabases
               ELSE IF command = "statement"
               THEN {[t \in TableNames |-> PlainTable(<<>>)]}
               ELSE {[t \in TableNames |-> NoTable]})
    /\ targetSchema \in (IF command = "validate_schema" THEN ValidatedSchemas
                         ELSE {<<>>})
    /\ currentSchema = <<>>
    /\ validationConfig = [IgnoreMissingTables |-> FALSE, IgnoreMissingColumns |-> FALSE]
    /\ call \in (IF command = "full_type"
                 THEN { [fn |-> "GetFullDataType", column |-> c] : c \in SizedColumns }
                 ELSE IF command = "statement"
                 THEN [fn : StatementFunctions, dbType : DatabaseTypes,
                       fk : FKPool("b")]
                 ELSE {NoCall})
    /\ dbAtCall = db
    /\ k = 1
    /\ results = EmptyResults
    /\ log = <<>>
    /\ faults = 0
    /\ comparison = NoComparison
    /\ issues = <<>>

\* identifierCol := db.getIdentifierColumn(tableName)
GetIdentifierColumnStep ==
    /\ pc = "call"
    /\ command = "identifier"
    /\ \E t \in TableNames :
         /\ tableExists(db, t)
         /\ log' = <<[table |-> t, identifier |-> getIdentifierColumn(db, t)]>>
    /\ pc' = "returned"
    /\ UNCHANGED <<flagVars, dryRun, conn, db, targetSchema, validationConfig, call,
                   dbAtCall, k, results, faults, currentSchema, comparison, issues>>

\* issues := schema.ValidateSchema(targetSchema)
ValidateSchemaStep ==
    /\ pc = "call"
    /\ command = "validate_schema"
    /\ issues' = ValidateSchema(targetSchema)
    /\ pc' = "returned"
    /\ UNCHANGED <<flagVars, dryRun, conn, db, targetSchema, validationConfig, call,
                   dbAtCall, k, results, log, faults, currentSchema, comparison>>

\* column.GetFullDataType()
GetFullDataTypeStep ==
    /\ pc = "call"
    /\ command = "full_type"
    /\ log' = <<[fullType |-> GetFullDataType(call.column)]>>
    /\ pc' = "returned"
    /\ UNCHANGED <<flagVars, dryRun, conn, db, targetSchema, validationConfig, call,
                   dbAtCall, k, results, faults, currentSchema, comparison, issues>>

\* one of the statement functions formats its statement
FormatStatementStep ==
    /\ pc = "call"
    /\ command = "statement"
    /\ log' = <<[statement |->
                    StatementOf(call.fn, call.dbType, call.fk,
                                getIdentifierColumn(db, call.fk.TableName))]>>
    /\ pc' = "returned"
    /\ UNCHANGED <<flagVars, dryRun, conn, db, targetSchema, validationConfig, call,
                   dbAtCall, k, results, faults, currentSchema, comparison, issues>>

NextFunctions ==
    \/ GetIdentifierColumnStep
    \/ ValidateSchemaStep
    \/ GetFullDataTypeStep
    \/ FormatStatementStep

SpecFunctions == InitFunctions /\ [][NextFunctions]_vars

\* ================================================================ claims
NoStatements == \A i \in 1..Len(log) : ~log[i].stmt

EngineCalled == call.fn # "none"

GateRejected == pc \in {"action_error", "confirm_error"}

\* C1: the engine is called with dryRun=false only if --confirm is true; in
\* every other flag combination the command runs with dryRun=true or returns
\* an error before a connection is opened, and --dry-run=false without
\* --confirm is rejected.
C1_ConfirmRequired ==
    /\ (EngineCalled /\ ~call.dryRun) => confirmFlag = "true"
    /\ (confirmFlag # "true" /\ pc # "start") =>
          /\ (GateRejected /\ conn = "none" /\ ~EngineCalled) \/ dryRun
          /\ EngineCalled => call.dryRun
          /\ NoStatements
          /\ db = dbAtCall
    /\ (dryRunFlag = "false" /\ confirmFlag # "true" /\ pc # "start") =>
          (GateRejected /\ conn = "none" /\ ~EngineCalled)

\* a confirmed run that issued a corrective statement
C1_Witness ==
    /\ EngineCalled /\ ~call.dryRun /\ confirmFlag = "true"
    /\ \E i \in 1..Len(log) : log[i].stmt

\* C2: with neither --dry-run nor --confirm given the gate resolves to
\* dry-run: the engine is called with dryRun=true and no corrective
\* statement is executed.
C2_UnsetDefaultsToDryRun ==
    (dryRunFlag = "absent" /\ confirmFlag = "absent"
     /\ pc \notin {"start", "action_error"}) =>
        /\ pc # "confirm_error"
        /\ dryRun
        /\ EngineCalled => call.dryRun
        /\ NoStatements
        /\ db = dbAtCall

\* a finished run without either flag that found violations
C2_Witness ==
    /\ dryRunFlag = "absent" /\ confirmFlag = "absent" /\ pc = "done"
    /\ \E i \in 1..Len(log) : log[i].found > 0

\* C3: with --dry-run explicitly true and --confirm set the gate stays in
\* dry-run: the engine is called with dryRun=true and no DELETE/UPDATE is
\* issued; --confirm switches dry-run off only when --dry-run was not given.
C3_ExplicitDryRunWins ==
    /\ (dryRunFlag = "true" /\ confirmFlag = "true"
        /\ pc \notin {"start", "action_error"}) =>
          /\ pc # "confirm_error"
          /\ dryRun
          /\ EngineCalled => call.dryRun
          /\ NoStatements
          /\ db = dbAtCall
    /\ (confirmFlag = "true" /\ pc \notin {"start", "action_error"}) =>
          dryRun = (dryRunFlag = "true")

\* a finished run with --dry-run --confirm that found violations
C3_Witness ==
    /\ dryRunFlag = "true" /\ confirmFlag = "true" /\ pc = "done"
    /\ \E i \in 1..Len(log) : log[i].found > 0

\* the configuration errors C5 names, read off the command line
C5_ConfigError ==
    \/ fixAction = ""
    \/ (command = "fk" /\ fixAction \notin {"remove", "set-null"})
    \/ (command = "null" /\ fixAction \notin {"remove", "set-default"})
    \/ (command = "null" /\ fixAction = "set-default" /\ defaultValue = "")

LogSum(t, field) ==
    LET S[m \in 0..Len(log)] ==
            IF m = 0 THEN 0
            ELSE S[m - 1] + (IF log[m].table = t THEN log[m][field] ELSE 0)
    IN  S[Len(log)]

\* the returned results carry the counts of the find pass
CountsReported ==
    \A t \in DOMAIN results :
        /\ results[t].IssuesFound = LogSum(t, "found")
        /\ results[t].RecordsAffected = LogSum(t, "found")

\* entry i of the log skipped its find pass under IgnoreMissingTables /
\* IgnoreMissingColumns: the table or column is missing, or its existence
\* probe failed
SkippedAsMissing(i) ==
    /\ call.fn = "null"
    /\ LET c == NotNullColumnsOf(targetSchema)[i]
       IN  \/ /\ validationConfig.IgnoreMissingTables
              /\ (~tableExists(db, c.TableName) \/ faults > 0)
           \/ /\ validationConfig.IgnoreMissingColumns
              /\ (~columnExists(db, c.TableName, c.ColumnName) \/ faults > 0)

\* C4 (as amended): with dryRun=true the engine leaves the database
\* unchanged and issues no corrective statement for every target schema,
\* action and validation config; the find pass runs for every foreign key and
\* for every NOT NULL column except the columns FixNullValueViolations skips
\* under IgnoreMissingTables / IgnoreMissingColumns, and the counts it found
\* are what the results report.
C4_DryRunLeavesDatabase ==
    (EngineCalled /\ call.dryRun) =>
        /\ db = dbAtCall
        /\ NoStatements
        /\ \A i \in 1..Len(log) : log[i].type = "skipped" => SkippedAsMissing(i)
        /\ pc = "done" => (Len(log) = WorkLen /\ CountsReported)

\* a finished dry run that skipped one column and found violations in another
C4_Witness ==
    /\ pc = "done" /\ call.dryRun
    /\ \E i \in 1..Len(log) : log[i].type = "skipped"
    /\ \E i \in 1..Len(log) : log[i].found > 0

\* C4 as stated: with dryRun=true the database is left unchanged and the
\* find pass runs for every foreign key / NOT NULL column, for every
\* validation config.
C4_FindPassRunsForEveryColumn ==
    (EngineCalled /\ call.dryRun /\ pc = "done") =>
        /\ db = dbAtCall
        /\ NoStatements
        /\ Len(log) = WorkLen
        /\ \A i \in 1..Len(log) : log[i].type # "skipped"
        /\ CountsReported

\* every table and column the target schema names is in database d
SchemaObjectsExist(d, schema) ==
    \A i \in 1..Len(schema) :
        \A j \in 1..Len(schema[i].Columns) :
            columnExists(d, schema[i].TableName, schema[i].Columns[j].ColumnName)

\* the run met no failing find and no failing corrective statement
NoStatementError == \A i \in 1..Len(log) : ~log[i].findErr /\ ~log[i].fixErr

\* C6: for a target schema whose tables and columns all exist in the live
\* database, after FixForeignKeyViolations with action "remove" and
\* dryRun=false has completed without a statement error, ValidateForeignKeys
\* returns no foreign_key_violation issue.
C6_RemoveLeavesNoViolation ==
    (/\ pc = "done" /\ call.fn = "fk" /\ call.action = "remove" /\ ~call.dryRun
     /\ SchemaObjectsExist(dbAtCall, targetSchema)
     /\ NoStatementError) =>
        LET after == ValidateForeignKeys(db, targetSchema)
        IN  \A i \in 1..Len(after) :
                ~(after[i].type = "foreign_key_violation" /\ after[i].n > 0)

\* C7: for any database state and target schema the per-table
\* RecordsAffected of FixForeignKeyViolations with dryRun=true equals the
\* per-table RecordsAffected of the same call with dryRun=false run from the
\* same database state.
C7_DryRunCountsMatchFix ==
    (pc = "done" /\ call.fn = "fk" /\ ~call.dryRun /\ faults = 0) =>
        LET dry == FixForeignKeyViolations(dbAtCall, EmptyResults,
                                           ForeignKeysOf(targetSchema),
                                           call.action, TRUE, validationConfig).results
        IN  \A t \in DOMAIN results :
                results[t].RecordsAffected = dry[t].RecordsAffected

\* a sub-operation of table t failed and the engine did not skip it
Errored(t) ==
    \E i \in 1..Len(log) :
        /\ log[i].table = t
        /\ \/ log[i].fixErr
           \/ log[i].findErr /\ ~(call.fn = "fk" /\ validationConfig.IgnoreMissingTables)

\* C8: for each table the returned FixResult has IssuesFound and
\* RecordsAffected equal to the sums over the constraints/columns processed
\* for it, and Success is false with Error set whenever a sub-operation of
\* the table errored, whatever the order of failures and successes.
C8_PerTableAggregation ==
    pc = "done" =>
        \A t \in DOMAIN results :
            /\ results[t].IssuesFound = LogSum(t, "found")
            /\ results[t].RecordsAffected = LogSum(t, "affected")
            /\ Errored(t) => (~results[t].Success /\ results[t].Error # "")

\* C9: with IgnoreMissingTables false a failed find or a failed corrective
\* statement never ends the run: the loop goes on to every remaining foreign
\* key / NOT NULL column, the failure is recorded in the table's
\* FixResult.Error, and the call returns the accumulated results with a nil
\* error.
C9_FailureNeverHalts ==
    (EngineCalled /\ ~validationConfig.IgnoreMissingTables) =>
        /\ pc # "fix_error"
        /\ \A i \in 1..Len(log) :
              (log[i].findErr \/ log[i].fixErr) =>
                  /\ log[i].table \in DOMAIN results
                  /\ results[log[i].table].Error # ""
        /\ \A t \in DOMAIN results : results[t].IssuesFound = LogSum(t, "found")
        /\ pc = "done" => Len(log) = WorkLen

\* a run that finished after a failure, having found violations later on
C9_Witness ==
    /\ pc = "done" /\ ~validationConfig.IgnoreMissingTables
    /\ \E i \in 1..Len(log) : \E j \in 1..Len(log) :
          /\ i < j
          /\ (log[i].findErr \/ log[i].fixErr)
          /\ log[j].found > 0

\* C10: with IgnoreMissingTables set, a foreign key whose source table or
\* referenced table is missing from the live database adds nothing to
\* IssuesFound or RecordsAffected, records no error and causes no corrective
\* statement, in dry-run and in confirmed mode.
C10_MissingTableSkipped ==
    (call.fn = "fk" /\ validationConfig.IgnoreMissingTables) =>
        \A i \in 1..Len(log) :
            LET fk == ForeignKeysOf(targetSchema)[i]
            IN  (~tableExists(dbAtCall, fk.TableName)
                 \/ ~tableExists(dbAtCall, fk.ReferencedTable)) =>
                    /\ log[i].found = 0
                    /\ log[i].affected = 0
                    /\ ~log[i].stmt
                    /\ ~log[i].fixErr

\* C11: fixes run in a transaction and a failed operation is rolled back:
\* when a corrective statement of a confirmed run fails, the database after
\* the run equals the database before it.
C11_FailedFixRolledBack ==
    (/\ pc = "done" /\ EngineCalled /\ ~call.dryRun
     /\ \E i \in 1..Len(log) : log[i].fixErr) =>
        db = dbAtCall

\* ------------------------------------------------------------ differ claims
Compared == pc = "compared"

\* the table names of a schema
NamesOf(schema) == { schema[i].TableName : i \in 1..Len(schema) }

\* the elements of a list
Range(list) == { list[i] : i \in 1..Len(list) }

\* no element of the list occurs twice
NoRepeat(list) ==
    \A i \in 1..Len(list) : \A j \in 1..Len(list) : i # j => list[i] # list[j]

\* C12: comparing a schema with itself, duplicate table or column names
\* included, gives empty MissingTables, empty ExtraTables and an empty
\* TableDifferences map.
C12_SelfCompareEmpty ==
    (Compared /\ currentSchema = targetSchema) =>
        /\ comparison.MissingTables = <<>>
        /\ comparison.ExtraTables = <<>>
        /\ DOMAIN comparison.TableDifferences = {}

\* a schema with a repeated table name and a schema with a repeated column
\* name, each compared with itself
C12_Witness ==
    /\ Compared /\ currentSchema = targetSchema
    /\ \/ /\ Len(targetSchema) = 2
          /\ targetSchema[1].TableName = targetSchema[2].TableName
          /\ targetSchema[1] # targetSchema[2]
       \/ /\ Len(targetSchema) = 1
          /\ Len(targetSchema[1].Columns) = 2
          /\ targetSchema[1].Columns[1].ColumnName = targetSchema[1].Columns[2].ColumnName
          /\ targetSchema[1].Columns[1] # targetSchema[1].Columns[2]

\* C13: MissingTables is, as a set, the target table names absent from
\* current, ExtraTables the current table names absent from target; each
\* name is listed once and no name is in both lists.
C13_MissingAndExtraTables ==
    Compared =>
        /\ Range(comparison.MissingTables) = NamesOf(targetSchema) \ NamesOf(currentSchema)
        /\ Range(comparison.ExtraTables) = NamesOf(currentSchema) \ NamesOf(targetSchema)
        /\ NoRepeat(comparison.MissingTables)
        /\ NoRepeat(comparison.ExtraTables)
        /\ Range(comparison.MissingTables) \cap Range(comparison.ExtraTables) = {}

\* a comparison with a missing and an extra table, the target naming its
\* table twice
C13_Witness ==
    /\ Compared
    /\ comparison.MissingTables # <<>> /\ comparison.ExtraTables # <<>>
    /\ Len(targetSchema) = 2

\* the last table of the name in a schema: the one CompareSchemas looks at
TableNamed(schema, n) == schema[LastIndex(TableKeys(schema), n)]

\* the names of a column list
ColumnNames(cols) == { cols[i].ColumnName : i \in 1..Len(cols) }

\* the last column of the name in a column list
ColumnNamed(cols, n) == cols[LastIndex(ColumnKeys(cols), n)]

\* the three attributes the differ compares
ColumnsDiffer(c, t) ==
    \/ c.DataType # t.DataType
    \/ c.IsNullable # t.IsNullable
    \/ Sprintv(c.DefaultValue) # Sprintv(t.DefaultValue)

\* the four parts of the foreign-key identity
SameMapping(f, g) ==
    /\ f.TableName = g.TableName /\ f.ColumnName = g.ColumnName
    /\ f.ReferencedTable = g.ReferencedTable
    /\ f.ReferencedColumn = g.ReferencedColumn

\* tables c and t differ in columns or foreign keys
TablesDiffer(c, t) ==
    \/ ColumnNames(c.Columns) # ColumnNames(t.Columns)
    \/ \E n \in ColumnNames(c.Columns) \cap ColumnNames(t.Columns) :
          ColumnsDiffer(ColumnNamed(c.Columns, n), ColumnNamed(t.Columns, n))
    \/ \E f \in Range(t.ForeignKeys) : ~ \E g \in Range(c.ForeignKeys) : SameMapping(f, g)
    \/ \E g \in Range(c.ForeignKeys) : ~ \E f \in Range(t.ForeignKeys) : SameMapping(f, g)

\* C14: a table name is a key of TableDifferences exactly when the table is
\* in both schemas and one of its missing, extra or modified columns or its
\* missing or extra foreign keys is non-empty; no stored entry has all of
\* them empty.
C14_OmitWhenEmpty ==
    Compared =>
        /\ \A n \in TableNames :
              n \in DOMAIN comparison.TableDifferences <=>
                  /\ n \in NamesOf(currentSchema) \cap NamesOf(targetSchema)
                  /\ TablesDiffer(TableNamed(currentSchema, n), TableNamed(targetSchema, n))
        /\ \A n \in DOMAIN comparison.TableDifferences :
              LET d == comparison.TableDifferences[n]
              IN  \/ d.MissingColumns # <<>> \/ d.ExtraColumns # <<>>
                  \/ DOMAIN d.ModifiedColumns # {}
                  \/ d.ForeignKeyDiffs.Missing # <<>> \/ d.ForeignKeyDiffs.Extra # <<>>

\* two schemas sharing two tables, one stored as different, one omitted
C14_Witness ==
    /\ Compared
    /\ NamesOf(currentSchema) = TableNames /\ NamesOf(targetSchema) = TableNames
    /\ Cardinality(DOMAIN comparison.TableDifferences) = 1

\* the ModifiedColumns of table n, empty when the table has no entry
ModifiedOf(n) ==
    IF n \in DOMAIN comparison.TableDifferences
    THEN comparison.TableDifferences[n].ModifiedColumns
    ELSE <<>>

\* C15: a column in both tables has a ModifiedColumns entry, holding both
\* Column values, exactly when the two differ in DataType, IsNullable or
\* the string form of DefaultValue; a difference in size metadata alone is
\* not reported.
C15_ModifiedColumns ==
    Compared =>
        \A n \in NamesOf(currentSchema) \cap NamesOf(targetSchema) :
            LET cc == TableNamed(currentSchema, n).Columns
                tc == TableNamed(targetSchema, n).Columns
            IN  /\ DOMAIN ModifiedOf(n) \subseteq ColumnNames(cc) \cap ColumnNames(tc)
                /\ \A c \in ColumnNames(cc) \cap ColumnNames(tc) :
                      /\ c \in DOMAIN ModifiedOf(n) <=>
                            ColumnsDiffer(ColumnNamed(cc, c), ColumnNamed(tc, c))
                      /\ c \in DOMAIN ModifiedOf(n) =>
                            /\ ModifiedOf(n)[c].Current = ColumnNamed(cc, c)
                            /\ ModifiedOf(n)[c].Target = ColumnNamed(tc, c)

\* column id differs in size only and is not reported, column ref differs
\* in type and is
C15_Witness ==
    /\ Compared
    /\ Len(currentSchema) = 1 /\ Len(targetSchema) = 1
    /\ currentSchema[1].Columns = <<FullColumn("id", "int", "YES", NilValue, 10),
                                    FullColumn("ref", "int", "YES", NilValue, NULL)>>
    /\ targetSchema[1].Columns = <<FullColumn("id", "int", "YES", NilValue, NULL),
                                   FullColumn("ref", "text", "YES", NilValue, NULL)>>
    /\ DOMAIN ModifiedOf("a") = {"ref"}

\* C16: a foreign key is never listed in ForeignKeyDiffs.Missing or
\* ForeignKeyDiffs.Extra when the other side has a foreign key of equal
\* TableName, ColumnName, ReferencedTable and ReferencedColumn, whatever
\* their ConstraintName, UpdateRule and DeleteRule.
C16_ForeignKeyIdentity ==
    Compared =>
        \A n \in DOMAIN comparison.TableDifferences :
            LET d == comparison.TableDifferences[n].ForeignKeyDiffs
                cf == Range(TableNamed(currentSchema, n).ForeignKeys)
                tf == Range(TableNamed(targetSchema, n).ForeignKeys)
            IN  /\ \A f \in Range(d.Missing) : ~ \E g \in cf : SameMapping(f, g)
                /\ \A g \in Range(d.Extra) : ~ \E f \in tf : SameMapping(f, g)

\* the same mapping under another constraint name and delete rule on the
\* two sides, next to a foreign key that is missing
C16_Witness ==
    /\ Compared
    /\ "a" \in DOMAIN comparison.TableDifferences
    /\ Len(comparison.TableDifferences["a"].ForeignKeyDiffs.Missing) = 1
    /\ \E f \in Range(targetSchema[1].ForeignKeys) :
          \E g \in Range(currentSchema[1].ForeignKeys) :
              /\ SameMapping(f, g)
              /\ f.ConstraintName # g.ConstraintName
              /\ f.DeleteRule # g.DeleteRule

\* ------------------------------------------------------ validator claims
\* positions in the issue list of the issues of foreign key number key
IssuesOfKey(key) == { i \in 1..Len(issues) : issues[i].key = key }

\* positions of the issues that name table t (and column c)
IssuesOfTable(t) == { i \in 1..Len(issues) : issues[i].Table = t }

IssuesOfColumn(t, c) ==
    { i \in 1..Len(issues) : issues[i].Table = t /\ issues[i].Column = c }

\* the kind of issue the first absent object of the foreign key calls for,
\* "" when nothing is absent
FirstAbsent(d, fk) ==
    IF ~tableExists(d, fk.TableName) THEN "missing_source_table"
    ELSE IF ~tableExists(d, fk.ReferencedTable) THEN "missing_referenced_table"
    ELSE IF ~columnExists(d, fk.TableName, fk.ColumnName) THEN "missing_source_column"
    ELSE IF ~columnExists(d, fk.ReferencedTable, fk.ReferencedColumn)
    THEN "missing_referenced_column"
    ELSE ""

\* ValidateForeignKeys returned with every foreign key visited
AllForeignKeysVisited ==
    pc = "validated" => Len(log) = Len(ForeignKeysOf(targetSchema))

\* C17: for a foreign key with an absent object and no failing probe, the
\* first absent object in the order source table, referenced table, source
\* column, referenced column gives exactly one issue of the matching
\* missing_* kind, the find returns no error, the anti-join is not run, and
\* ValidateForeignKeys still visits every remaining foreign key.
C17_MissingObjectIssue ==
    command = "validate_fk" =>
        /\ pc # "validate_error"
        /\ AllForeignKeysVisited
        /\ \A i \in 1..Len(log) :
             LET fk == ForeignKeysOf(targetSchema)[i]
             IN  (log[i].fault = "none" /\ FirstAbsent(db, fk) # "") =>
                   /\ ~log[i].findErr
                   /\ ~log[i].queried
                   /\ Cardinality(IssuesOfKey(i)) = 1
                   /\ \A j \in IssuesOfKey(i) :
                        /\ issues[j].Type = FirstAbsent(db, fk)
                        /\ issues[j].Table = fk.TableName
                        /\ issues[j].Column = fk.ColumnName

\* a run in which the first foreign key lacks its source column only and the
\* second one, validated after it, has an orphan row
C17_Witness ==
    /\ command = "validate_fk"
    /\ pc = "validated"
    /\ Len(log) = 2
    /\ log[1].fault = "none"
    /\ log[1].type = "missing_source_column"
    /\ tableExists(db, ForeignKeysOf(targetSchema)[1].ReferencedTable)
    /\ log[2].type = "foreign_key_violation"
    /\ log[2].found > 0

\* C18: for a foreign key whose tables and columns all exist (and whose
\* queries are not made to fail), the issues of the foreign key are
\* foreign_key_violation issues, one per orphan row up to the cap, each for
\* a different orphan row; no other row yields an issue.
C18_OneIssuePerOrphan ==
    command = "validate_fk" =>
        \A i \in 1..Len(log) :
            LET fk == ForeignKeysOf(targetSchema)[i]
            IN  (log[i].fault = "none" /\ FKObjectsExist(db, fk)) =>
                  /\ Cardinality(IssuesOfKey(i))
                        = Min(Cardinality(Orphans(db, fk)), QueryLimit)
                  /\ \A j \in IssuesOfKey(i) :
                       /\ issues[j].Type = "foreign_key_violation"
                       /\ issues[j].row \in Orphans(db, fk)
                       /\ \A j2 \in IssuesOfKey(i) :
                            issues[j2].row = issues[j].row => j2 = j

\* C19: ValidateForeignKeys never returns an error; a find that fails gives
\* exactly one foreign_key_validation_error issue of severity error for its
\* foreign key, and every foreign key of the schema is still visited.
C19_ValidateForeignKeysNeverAborts ==
    command = "validate_fk" =>
        /\ pc # "validate_error"
        /\ AllForeignKeysVisited
        /\ \A i \in 1..Len(log) :
             LET fk == ForeignKeysOf(targetSchema)[i]
             IN  log[i].findErr =>
                   /\ Cardinality(IssuesOfKey(i)) = 1
                   /\ \A j \in IssuesOfKey(i) :
                        /\ issues[j].Type = "foreign_key_validation_error"
                        /\ issues[j].Severity = "error"
                        /\ issues[j].Table = fk.TableName
                        /\ issues[j].Column = fk.ColumnName

\* a run whose first find failed on a probe or on the anti-join and whose
\* second foreign key was validated all the same
C19_Witness ==
    /\ command = "validate_fk"
    /\ pc = "validated"
    /\ Len(log) = 2
    /\ log[1].findErr
    /\ log[1].fault \in {"probe", "query"}
    /\ ~log[2].findErr
    /\ log[2].type = "foreign_key_violation"
    /\ Cardinality(IssuesOfKey(2)) > 0

\* the call returned: (issues, nil) or, under StopOnFirstError, (nil, err)
Returned == pc \in {"validated", "validate_error"}

\* the existence probe of table t (of column c of t) was made to fail
ProbeFailed(t, c) ==
    \E i \in 1..Len(log) :
        log[i].table = t /\ log[i].column = c /\ log[i].fault = "probe"

\* the null-violation query was run for a column of table t
QueriedTable(t) == \E i \in 1..Len(log) : log[i].table = t /\ log[i].queried

\* What the validator owes a table of the schema with a NOT NULL column that
\* the live database lacks.
MissingTableHandled(t) ==
    /\ ~QueriedTable(t)
    /\ IF validationConfig.IgnoreMissingTables
       THEN IssuesOfTable(t) = {}
       ELSE /\ Cardinality(IssuesOfTable(t)) = 1
            /\ \A j \in IssuesOfTable(t) :
                 issues[j].Type = "missing_table" /\ issues[j].Severity = "warning"

\* What the validator owes a NOT NULL column the live table lacks.
MissingColumnHandled(t, c) ==
    /\ \A i \in 1..Len(log) :
         (log[i].table = t /\ log[i].column = c) => ~log[i].queried
    /\ IF validationConfig.IgnoreMissingColumns
       THEN IssuesOfColumn(t, c) = {}
       ELSE /\ Cardinality(IssuesOfColumn(t, c)) = 1
            /\ \A j \in IssuesOfColumn(t, c) :
                 issues[j].Type = "missing_column" /\ issues[j].Severity = "warning"

\* every missing table and missing column of the schema is handled
MissingObjectsHandled ==
    \A n \in 1..Len(targetSchema) :
        LET t == targetSchema[n].TableName
            cols == NotNullColumnsOf(<<targetSchema[n]>>)
        IN  /\ (cols # <<>> /\ ~tableExists(db, t) /\ ~ProbeFailed(t, ""))
                  => MissingTableHandled(t)
            /\ \A m \in 1..Len(cols) :
                 (tableExists(db, t) /\ ~columnExists(db, t, cols[m].ColumnName)
                  /\ ~ProbeFailed(t, "") /\ ~ProbeFailed(t, cols[m].ColumnName))
                     => MissingColumnHandled(t, cols[m].ColumnName)

HasMissingObject ==
    \E n \in 1..Len(targetSchema) :
        LET t == targetSchema[n].TableName
            cols == NotNullColumnsOf(<<targetSchema[n]>>)
        IN  /\ ~ProbeFailed(t, "")
            /\ \/ cols # <<>> /\ ~tableExists(db, t)
               \/ \E m \in 1..Len(cols) :
                    /\ tableExists(db, t)
                    /\ ~columnExists(db, t, cols[m].ColumnName)
                    /\ ~ProbeFailed(t, cols[m].ColumnName)

StepFailed(i) ==
    \/ log[i].fault = "probe"
    \/ /\ log[i].queried
       /\ \/ log[i].fault = "query"
          \/ ~columnExists(db, log[i].table, getIdentifierColumn(db, log[i].table))

\* the error-kind issue the failed step i calls for
ErrorKind(i) ==
    IF log[i].kind = "table" THEN "table_check_error"
    ELSE IF log[i].fault = "probe" THEN "column_check_error"
    ELSE "validation_error"

\* the NOT NULL validator returned with every table and column visited
AllItemsVisited ==
    pc = "validated" => k > Len(ValidateNotNullItems(targetSchema))

\* C21: with StopOnFirstError the first internal error of the NOT NULL
\* validator (table probe, column probe, null-violation query) ends the run
\* with an error and no issue list; without it the error becomes exactly one
\* issue of kind table_check_error, column_check_error or validation_error
\* (severity error), the run goes on and returns a nil error.
C21_StopOnFirstErrorModes ==
    command = "validate_null" =>
        /\ AllItemsVisited
        /\ (pc = "validate_error") =>
              (validationConfig.StopOnFirstError /\ issues = <<>>
               /\ Len(log) > 0 /\ StepFailed(Len(log)))
        /\ \A i \in 1..Len(log) :
             StepFailed(i) =>
                IF validationConfig.StopOnFirstError
                THEN pc = "validate_error" /\ issues = <<>> /\ i = Len(log)
                ELSE /\ pc # "validate_error"
                     /\ Cardinality(IssuesOfColumn(log[i].table, log[i].column)) = 1
                     /\ \A j \in IssuesOfColumn(log[i].table, log[i].column) :
                          /\ issues[j].Type = ErrorKind(i)
                          /\ issues[j].Severity = "error"

\* a run without StopOnFirstError in which a query failed, was reported as
\* validation_error, and a later column still had its null rows reported
C21_Witness ==
    /\ command = "validate_null"
    /\ pc = "validated"
    /\ ~validationConfig.StopOnFirstError
    /\ \E i \in 1..Len(log) : \E i2 \in 1..Len(log) :
         /\ i < i2
         /\ StepFailed(i) /\ log[i].kind = "column" /\ log[i].queried
         /\ log[i2].found > 0 /\ log[i2].queried /\ ~StepFailed(i2)
    /\ \E j \in 1..Len(issues) : issues[j].Type = "validation_error"
    /\ \E j \in 1..Len(issues) : issues[j].Type = "null_constraint_violation"

\* ------------------------------------------------ single-function claims
\* the first of id, <table>_id, uuid, guid, key the table has, "" if none
FirstCandidate(d, t) ==
    IF "id" \in d[t].cols THEN "id"
    ELSE IF (t \o "_id") \in d[t].cols THEN t \o "_id"
    ELSE IF "uuid" \in d[t].cols THEN "uuid"
    ELSE IF "guid" \in d[t].cols THEN "guid"
    ELSE IF "key" \in d[t].cols THEN "key"
    ELSE ""

\* C22: getIdentifierColumn returns the first of id, <table>_id, uuid,
\* guid, key that the table has, whatever its ordinal position; if it has
\* none of them, its first column in ordinal order; if it has no column,
\* the literal "1".
C22_IdentifierColumn ==
    (command = "identifier" /\ pc = "returned") =>
        LET t == log[1].table
        IN  log[1].identifier =
              IF FirstCandidate(db, t) # "" THEN FirstCandidate(db, t)
              ELSE IF Len(db[t].order) > 0 THEN db[t].order[1]
              ELSE "1"

\* how many entries of a list of names equal the name
Occurrences(names, name) ==
    Cardinality({ i \in 1..Len(names) : names[i] = name })

\* how many issues of the type name the table (position n, 0 for any) and
\* the column
IssueCount(type, table, n, column) ==
    Cardinality({ i \in 1..Len(issues) :
                    /\ issues[i].Type = type
                    /\ issues[i].Table = table
                    /\ issues[i].Column = column
                    /\ n # 0 => issues[i].key = n })

\* C23: ValidateSchema gives k-1 duplicate_table issues for a table name
\* that occurs k times, and k-1 duplicate_column issues for a column name
\* that occurs k times in one table; none for a name that occurs once.
C23_DuplicateIssues ==
    (command = "validate_schema" /\ pc = "returned") =>
        /\ \A n \in 1..Len(targetSchema) :
             LET table == targetSchema[n]
             IN  /\ IssueCount("duplicate_table", table.TableName, 0, "")
                      = Occurrences(TableKeys(targetSchema), table.TableName) - 1
                 /\ \A m \in 1..Len(table.Columns) :
                      IssueCount("duplicate_column", table.TableName, n,
                                 table.Columns[m].ColumnName)
                        = Occurrences(ColumnKeys(table.Columns),
                                      table.Columns[m].ColumnName) - 1
        /\ Cardinality({ i \in 1..Len(issues) :
                           issues[i].Type \in {"duplicate_table", "duplicate_column"} })
             = (Len(targetSchema)
                - Cardinality({ targetSchema[n].TableName : n \in 1..Len(targetSchema) }))
               + Cardinality({ nm \in (1..Len(targetSchema)) \X (1..(MaxColumns + 1)) :
                    /\ nm[2] <= Len(targetSchema[nm[1]].Columns)
                    /\ SeenBefore(ColumnKeys(targetSchema[nm[1]].Columns), nm[2]) })

\* a schema whose three tables share one name, with two duplicate_table
\* issues, the second and third tables being apart from the first
C23_Witness ==
    /\ command = "validate_schema"
    /\ pc = "returned"
    /\ Len(targetSchema) = 3
    /\ \A n \in 1..3 : targetSchema[n].TableName = "a"
    /\ IssueCount("duplicate_table", "a", 0, "") = 2

\* the size field is there and positive
Positive(ptr) == ptr # NilInt /\ ptr[1] > 0

\* C24: GetFullDataType gives type(n) for a character type of length n,
\* 0 < n < 2147483647; type(p,s) or, without a positive scale, type(p) for
\* numeric, decimal, money of precision p > 0; type(d) for timestamp, time,
\* interval of precision d > 0; the bare DataType for an absent or
\* non-positive size, the length 2147483647, or a size on any other type.
C24_FullDataType ==
    (command = "full_type" /\ pc = "returned") =>
        LET c == call.column
            t == c.DataType
            full == log[1].fullType
        IN  IF t \in {"character varying", "varchar", "char", "character", "text"}
            THEN IF Positive(c.CharacterMaxLength) /\ c.CharacterMaxLength[1] # MaxLength
                 THEN full = t \o "(" \o ToString(c.CharacterMaxLength[1]) \o ")"
                 ELSE full = t
            ELSE IF t \in {"numeric", "decimal", "money"}
            THEN IF Positive(c.NumericPrecision)
                 THEN IF Positive(c.NumericScale)
                      THEN full = t \o "(" \o ToString(c.NumericPrecision[1]) \o ","
                                    \o ToString(c.NumericScale[1]) \o ")"
                      ELSE full = t \o "(" \o ToString(c.NumericPrecision[1]) \o ")"
                 ELSE full = t
            ELSE IF t \in {"timestamp", "time", "interval"}
            THEN IF Positive(c.DatetimePrecision)
                 THEN full = t \o "(" \o ToString(c.DatetimePrecision[1]) \o ")"
                 ELSE full = t
            ELSE full = t

\* an unbounded character varying column that also carries a precision:
\* the bare type comes back
C24_Witness ==
    /\ command = "full_type"
    /\ pc = "returned"
    /\ call.column.DataType = "character varying"
    /\ call.column.CharacterMaxLength = IntPtr(MaxLength)
    /\ call.column.NumericPrecision = IntPtr(10)
    /\ log[1].fullType = "character varying"

\* C25: every identifier of every violation-finding query and corrective
\* DELETE/UPDATE is quoted with the quote character of the connection's
\* dialect: the backtick on MySQL, the double quote on PostgreSQL.
C25_DialectQuoting ==
    (command = "statement" /\ pc = "returned") =>
        \A i \in 1..Len(log[1].statement) :
            log[1].statement[i].kind = "identifier" =>
                log[1].statement[i].quote
                  = (IF call.dbType = "mysql" THEN Backtick ELSE DoubleQuote)

\* ------------------------------------------------ validating-twice claims
\* What an issue list shows: per issue its type, severity, table, column,
\* the identifier of the row and the value of the column in the row.
Shown(list) ==
    [i \in 1..Len(list) |->
        [Type |-> list[i].Type, Severity |-> list[i].Severity,
         Table |-> list[i].Table, Column |-> list[i].Column,
         Identifier |-> IF list[i].row = 0 THEN NULL
                        ELSE db[list[i].Table].rows[list[i].row]["id"],
         Value |-> IF list[i].row = 0 THEN NULL
                   ELSE db[list[i].Table].rows[list[i].row][list[i].Column]]]

\* C26: ValidateForeignKeys, and ValidateNotNullConstraints with its
\* default config, called twice on the same schema and an unchanged
\* database, with every probe and query answering, return the same issue
\* list, also when more rows violate a constraint than the cap reports.
C26_ValidationIdempotent ==
    (call.fn = "again" /\ pc = "validated"
     /\ ~validationConfig.IgnoreMissingTables /\ ~validationConfig.IgnoreMissingColumns
     /\ ~validationConfig.StopOnFirstError /\ validationConfig.MaxIssuesPerTable = 0)
        => Shown(issues) = Shown(log[1].issues)

\* ------------------------------------------------------- command claims
\* RunE has returned
Exited ==
    pc \in {"action_error", "confirm_error", "connect_error", "schema_error",
            "fix_error", "validate_failed", "output_error", "done"}

\* C27: a connection that was opened is released on every exit path: once
\* a fix, validate or compare command has returned, its handle is not open,
\* whether the ping, the schema load, the validation, the fix or the output
\* failed or nothing did; a handle is open only between a successful
\* NewConnection and the return.
C27_ConnectionReleased ==
    /\ Exited => conn # "open"
    /\ pc \in {"schema_error", "fix_error", "validate_failed", "output_error", "done"}
         => conn = "closed"
    /\ pc \in {"start", "gated", "action_error", "confirm_error"} => conn = "none"

\* a validate command whose connection was opened, whose output step failed
\* after the validation, and whose handle is closed
C27_Witness ==
    /\ command = "validate_fk"
    /\ pc = "output_error"
    /\ Len(log) > 0
    /\ conn = "closed"

\* ------------------------------------------------- further engine claims
\* the orphan rows the find pass reported for table t
ViolationsFound(t) ==
    LET S[m \in 0..Len(log)] ==
            IF m = 0 THEN 0
            ELSE S[m - 1] + (IF log[m].table = t /\ log[m].type = "foreign_key_violation"
                             THEN log[m].found ELSE 0)
    IN  S[Len(log)]

\* C28: in FixForeignKeyViolations the IssuesFound of a table counts only
\* the foreign_key_violation rows found for its foreign keys, and a foreign
\* key whose source table, referenced table or one of the two columns is
\* missing gets no corrective statement and adds nothing to IssuesFound or
\* to the dry-run RecordsAffected.
C28_OnlyViolationsCounted ==
    (EngineCalled /\ call.fn = "fk") =>
        /\ \A t \in DOMAIN results : results[t].IssuesFound = ViolationsFound(t)
        /\ \A i \in 1..Len(log) :
             ~FKObjectsExist(dbAtCall, ForeignKeysOf(targetSchema)[i]) =>
                /\ ~log[i].stmt
                /\ log[i].affected = 0

\* C29: after a dry-run call of FixForeignKeyViolations or
\* FixNullValueViolations every table entry of the returned FixResults has
\* RecordsAffected equal to IssuesFound, and every entry with IssuesFound > 0
\* has Success true.
C29_DryRunCounts ==
    (EngineCalled /\ call.dryRun) =>
        \A t \in DOMAIN results :
            /\ results[t].RecordsAffected = results[t].IssuesFound
            /\ results[t].IssuesFound > 0 => results[t].Success

\* a dry run of either engine that returned after a failed find on a table
\* for which it also found violations
C29_Witness ==
    /\ pc = "done" /\ call.dryRun
    /\ \E t \in DOMAIN results :
          /\ results[t].IssuesFound > 0
          /\ results[t].Error # ""

\* ------------------------------------------------- further differ claims
\* f and g differ only in that f leaves TableName empty where g names the
\* owning table n
OwnerLeftOut(f, g, n) ==
    /\ f.TableName = "" /\ g.TableName = n
    /\ f.ColumnName = g.ColumnName
    /\ f.ReferencedTable = g.ReferencedTable
    /\ f.ReferencedColumn = g.ReferencedColumn

\* C30: CompareSchemas keys a foreign key by its own TableName field and
\* does not put the owning table's name in place of an empty one: a target
\* foreign key with empty TableName and a current foreign key of the
\* same-named table with TableName set and the same ColumnName,
\* ReferencedTable and ReferencedColumn are reported as a Missing and an
\* Extra foreign key, and the table appears in TableDifferences.
C30_EmptyTableNameNotSubstituted ==
    Compared =>
        \A n \in NamesOf(currentSchema) \cap NamesOf(targetSchema) :
            LET cf == Range(TableNamed(currentSchema, n).ForeignKeys)
                tf == Range(TableNamed(targetSchema, n).ForeignKeys)
            IN  \A f \in tf : \A g \in cf :
                    (/\ OwnerLeftOut(f, g, n)
                     /\ ~ \E h \in cf : SameMapping(f, h)
                     /\ ~ \E h \in tf : SameMapping(h, g)) =>
                        /\ n \in DOMAIN comparison.TableDifferences
                        /\ \E m \in Range(comparison.TableDifferences[n].ForeignKeyDiffs.Missing) :
                              SameMapping(m, f)
                        /\ \E e \in Range(comparison.TableDifferences[n].ForeignKeyDiffs.Extra) :
                              SameMapping(e, g)

\* the target leaves TableName empty, the current schema names the owner,
\* and the comparison lists exactly one Missing and one Extra foreign key
C30_Witness ==
    /\ Compared
    /\ Len(targetSchema) = 1 /\ Len(currentSchema) = 1
    /\ Len(targetSchema[1].ForeignKeys) = 1
    /\ Len(currentSchema[1].ForeignKeys) = 1
    /\ OwnerLeftOut(targetSchema[1].ForeignKeys[1],
                    currentSchema[1].ForeignKeys[1], "a")
    /\ "a" \in DOMAIN comparison.TableDifferences
    /\ Len(comparison.TableDifferences["a"].ForeignKeyDiffs.Missing) = 1
    /\ Len(comparison.TableDifferences["a"].ForeignKeyDiffs.Extra) = 1
====
